---- MODULE Spec2Model ----
(***************************************************************************)
(* Model of the electabuzz UDP client (src/py/core/electabuzz_client.py):  *)
(* one Client object (a Connection) used by cooperative asyncio tasks.     *)
(*                                                                         *)
(* asyncio runs a task without interruption between two suspension points, *)
(* so one action of the model is the code a task runs from one suspension  *)
(* point (a contended gate, a receive wait) to the next one or to the end  *)
(* of the call.                                                            *)
(***************************************************************************)
EXTENDS Integers, Sequences, FiniteSets, TLC

(***************************************************************************)
(* Bounds of the model.                                                    *)
(***************************************************************************)
\* calls started on the Connection in one behaviour
MaxCalls == 2
\* longest id list handed to multi_read
MaxIds == 2
\* largest attempt budget handed to the coordinator directly
MaxTries == 3
\* requests built in the behaviours that follow the transaction counter alone
MaxBuilt == 65540

Tasks == {"a", "b"}

(***************************************************************************)
(* Program constants.                                                      *)
(***************************************************************************)
EB_TYPE_FLOAT == 10
EB_TYPE_DOUBLE == 11
EB_TYPE_UINT32 == 6

EB_MT_TIMEOUT == 2
EB_MT_PING_REQ == 4096
EB_MT_READ_DATA_REQ == 4097
EB_MT_WRITE_DATA_REQ == 4098
EB_MT_CLIENTS_REQ == 4100
EB_MT_PING_RSP == 8192
EB_MT_READ_DATA_RSP == 8193
EB_MT_WRITE_DATA_RSP == 8194
EB_MT_CLIENTS_RSP == 8196

\* class EbPacketType: the values that have a member
EbPacketType == {0, 1, 2, 4096, 4097, 4098, 4099, 4100, 8192, 8193, 8194, 8195, 8196}

EB_OK == 0
EB_ERR_NOT_FOUND == 1
EB_ERR_WRONG_PARAMETER == 7
EB_ERR_MSG_FORMAT == 10
EB_ERR_READ_ONLY == 14
EB_ERR_TIMEOUT == 16
EB_ERR_CONNECTION == 61440

\* class EbResult: the values that have a member
EbResultValues == {0, 1, 4, 5, 6, 7, 8, 9, 10, 11, 12, 13, 14, 15, 16, 61440}

\* eb_result_dict: the names of the values that have one
eb_result_dict ==
    (0 :> "EB_OK") @@ (1 :> "EB_ERR_NOT_FOUND") @@ (4 :> "EB_ERR_OTHER")
    @@ (5 :> "EB_ERR_NOT_UNIQUE") @@ (6 :> "EB_ERR_NOT_IMPLEMENTED")
    @@ (7 :> "EB_ERR_WRONG_PARAMETER") @@ (8 :> "EB_ERR_NO_MEMORY")
    @@ (9 :> "EB_ERR_INTERNAL_ERR") @@ (10 :> "EB_ERR_MSG_FORMAT")
    @@ (11 :> "EB_ERR_OVERFLOW") @@ (12 :> "EB_ERR_TYPE")
    @@ (13 :> "EB_ERR_CALLBACK") @@ (14 :> "EB_ERR_READ_ONLY")
    @@ (15 :> "EB_ERR_LENGTH_MISMATCH")

\* the largest 16-bit value: 0xFFFF
UINT16_MAX == 65535

(***************************************************************************)
(* Python values.  Every value is a record, tagged by "py".                *)
(***************************************************************************)
None == [py |-> "None"]
EbResult(v) == [py |-> "EbResult", value |-> v]
PyInt(n) == [py |-> "int", v |-> n]
PyFloat(n) == [py |-> "float", v |-> n]
PyStr(s) == [py |-> "str", s |-> s]
PyList(s) == [py |-> "list", items |-> s]
\* a bytes object of n bytes
PyBytes(n) == [py |-> "bytes", v |-> n]

\* what a call hands back: a returned value or a raised exception
Return(v) == [kind |-> "return", value |-> v]
Raise(e) == [kind |-> "raise", exc |-> e]
Running == [kind |-> "running"]

(***************************************************************************)
(* msgpack.  A payload is the sequence of the objects its bytes encode;    *)
(* the unpacker's cursor is the number of objects consumed.                *)
(***************************************************************************)
MpInt(n) == [mp |-> "int", v |-> n]
MpStr(s) == [mp |-> "str", s |-> s]
MpFloat32(n) == [mp |-> "float32", v |-> n]
MpFloat64(n) == [mp |-> "float64", v |-> n]
MpArray(s) == [mp |-> "array", items |-> s]
\* a byte string of n bytes
MpBin(n) == [mp |-> "bin", v |-> n]

RECURSIVE SumSeq(_)
SumSeq(s) == IF s = <<>> THEN 0 ELSE Head(s) + SumSeq(Tail(s))

\* number of bytes of an encoded object
RECURSIVE MpLen(_)
MpLen(o) ==
    CASE o.mp = "int" ->
            IF o.v >= -32 /\ o.v <= 127 THEN 1
            ELSE IF o.v >= 0 /\ o.v <= 255 THEN 2
            ELSE IF o.v >= 0 /\ o.v <= 65535 THEN 3
            ELSE 5
      [] o.mp = "str" -> 2
      [] o.mp = "float32" -> 5
      [] o.mp = "float64" -> 9
      [] o.mp = "bin" ->
            IF o.v <= 255 THEN 2 + o.v
            ELSE IF o.v <= 65535 THEN 3 + o.v
            ELSE 5 + o.v
      [] o.mp = "array" -> 1 + SumSeq([k \in 1..Len(o.items) |-> MpLen(o.items[k])])

\* len(payload)
PayloadLen(p) == SumSeq([k \in 1..Len(p) |-> MpLen(p[k])])

\* Packer.pack(value)
RECURSIVE Pack(_, _)
Pack(value, use_single_float) ==
    CASE value.py = "int" -> MpInt(value.v)
      [] value.py = "float" ->
            IF use_single_float THEN MpFloat32(value.v) ELSE MpFloat64(value.v)
      [] value.py = "str" -> MpStr(value.s)
      [] value.py = "bytes" -> MpBin(value.v)
      [] value.py = "list" ->
            MpArray([k \in 1..Len(value.items) |-> Pack(value.items[k], use_single_float)])

\* Unpacker.unpack() of one object: the Python value it decodes to
RECURSIVE Unpacked(_)
Unpacked(o) ==
    CASE o.mp = "int" -> PyInt(o.v)
      [] o.mp = "str" -> PyStr(o.s)
      [] o.mp = "float32" -> PyFloat(o.v)
      [] o.mp = "float64" -> PyFloat(o.v)
      [] o.mp = "bin" -> PyBytes(o.v)
      [] o.mp = "array" -> PyList([k \in 1..Len(o.items) |-> Unpacked(o.items[k])])

(***************************************************************************)
(* struct.pack(">H", x) and struct.unpack(">H", b): big-endian 16 bits.    *)
(***************************************************************************)
PackH(x) == << x \div 256, x % 256 >>
UnpackH(b, at) == b[at] * 256 + b[at + 1]

(***************************************************************************)
(* Packet codec.  A raw datagram is [hdr, payload]: the bytes of its       *)
(* header (8 of them unless the datagram is shorter than a header, and     *)
(* then it has no payload) and the objects its remaining bytes encode.     *)
(***************************************************************************)
RawLen(raw) == Len(raw.hdr) + PayloadLen(raw.payload)

\* a counter that wraps one step early
NextTidEarlyWrap(tid) == IF tid + 1 >= UINT16_MAX THEN 0 ELSE tid + 1

\* a counter that advances by two
NextTidByTwo(tid) == IF tid + 2 > UINT16_MAX THEN 0 ELSE tid + 2

\* Client._next_transaction_id
NextTid(tid) == IF tid + 1 > UINT16_MAX THEN 0 ELSE tid + 1

\* a header with the message type written before the transaction id
CreatePacketTypeFirst(tid, type, payload) ==
    [hdr |-> PackH(0) \o PackH(type) \o PackH(tid) \o PackH(PayloadLen(payload)),
     payload |-> payload]

\* Client._create_packet, given the transaction id just assigned
CreatePacket(tid, type, payload) ==
    [hdr |-> PackH(0) \o PackH(tid) \o PackH(type) \o PackH(PayloadLen(payload)),
     payload |-> payload]

\* the objects of payload p that lie within its first n bytes
RECURSIVE PrefixOfBytes(_, _)
PrefixOfBytes(p, n) ==
    IF p = << >> THEN << >>
    ELSE IF MpLen(p[1]) > n THEN << >>
    ELSE << p[1] >> \o PrefixOfBytes(Tail(p), n - MpLen(p[1]))

\* a parser that cuts the payload at the length the header declares
ParsePacketDeclaredLength(raw) ==
    IF RawLen(raw) < 8 THEN Raise("UnboundLocalError")
    ELSE IF UnpackH(raw.hdr, 5) \notin EbPacketType THEN Raise("ValueError")
    ELSE Return([py |-> "dict",
                 version |-> UnpackH(raw.hdr, 1),
                 transaction_id |-> UnpackH(raw.hdr, 3),
                 type |-> UnpackH(raw.hdr, 5),
                 payload |-> PrefixOfBytes(raw.payload, UnpackH(raw.hdr, 7))])

\* Client._parse_packet: the short-packet branch reads the local `packet`
\* before it is bound, and EbPacketType(x) raises for a value with no member
ParsePacket(raw) ==
    IF RawLen(raw) < 8 THEN Raise("UnboundLocalError")
    ELSE IF UnpackH(raw.hdr, 5) \notin EbPacketType THEN Raise("ValueError")
    ELSE Return([py |-> "dict",
                 version |-> UnpackH(raw.hdr, 1),
                 transaction_id |-> UnpackH(raw.hdr, 3),
                 type |-> UnpackH(raw.hdr, 5),
                 payload |-> raw.payload])

(***************************************************************************)
(* Transaction coordinator: Client._tx_rx.  Its frame holds the locals     *)
(* tx_packet, response_type, n_tries, skip_tx, result, and `it`, the       *)
(* number of values the loop has taken from range(0, n_tries) (the code's  *)
(* i is it - 1).                                                           *)
(***************************************************************************)
NoFrame ==
    [tx_packet |-> None, response_type |-> 0, n_tries |-> 0,
     it |-> 0, skip_tx |-> FALSE, result |-> None]

\* what a receive wait ends with
RxTimeout == [rx |-> "timeout"]
RxRefused == [rx |-> "refused"]
RxDatagram(raw) == [rx |-> "datagram", raw |-> raw]

\* a loop that makes one attempt more than its budget
TxRxLoopOneMore(f) ==
    IF f.it <= f.n_tries
    THEN [ctl |-> "wait",
          f |-> [f EXCEPT !.it = f.it + 1, !.skip_tx = FALSE],
          sent |-> IF f.skip_tx THEN 0 ELSE 1,
          out |-> Running]
    ELSE [ctl |-> "return", f |-> f, sent |-> 0, out |-> Return(f.result)]

\* the loop head: the next attempt, up to its receive wait, or the end
TxRxLoop(f) ==
    IF f.it < f.n_tries
    THEN [ctl |-> "wait",
          f |-> [f EXCEPT !.it = f.it + 1, !.skip_tx = FALSE],
          sent |-> IF f.skip_tx THEN 0 ELSE 1,
          out |-> Running]
    ELSE [ctl |-> "return", f |-> f, sent |-> 0, out |-> Return(f.result)]

\* a coordinator that returns the first failure it records
ContinueGivesUp(f, result, skip) ==
    [ctl |-> "return", f |-> [f EXCEPT !.result = EbResult(result), !.skip_tx = skip],
     sent |-> 0, out |-> Return(EbResult(result))]

\* a failed attempt: the result is recorded and the loop goes on
Continue(f, result, skip) ==
    TxRxLoop([f EXCEPT !.result = EbResult(result), !.skip_tx = skip])

\* a coordinator that sends again after a transaction-id mismatch
TxRxCheckNoSkip(f, p, tid) ==
    IF p.version # 0 THEN Continue(f, EB_ERR_MSG_FORMAT, FALSE)
    ELSE IF p.transaction_id # tid THEN Continue(f, EB_ERR_MSG_FORMAT, FALSE)
    ELSE IF p.type = EB_MT_TIMEOUT THEN Continue(f, EB_ERR_TIMEOUT, FALSE)
    ELSE IF p.type # f.response_type THEN Continue(f, EB_ERR_MSG_FORMAT, FALSE)
    ELSE [ctl |-> "return", f |-> f, sent |-> 0, out |-> Return(p)]

\* a coordinator that accepts a matching response only in its last attempt
TxRxCheckAcceptsLast(f, p, tid) ==
    IF p.version # 0 THEN Continue(f, EB_ERR_MSG_FORMAT, FALSE)
    ELSE IF p.transaction_id # tid THEN Continue(f, EB_ERR_MSG_FORMAT, TRUE)
    ELSE IF p.type = EB_MT_TIMEOUT THEN Continue(f, EB_ERR_TIMEOUT, FALSE)
    ELSE IF p.type # f.response_type THEN Continue(f, EB_ERR_MSG_FORMAT, FALSE)
    ELSE IF f.it < f.n_tries THEN Continue(f, EB_ERR_MSG_FORMAT, FALSE)
    ELSE [ctl |-> "return", f |-> f, sent |-> 0, out |-> Return(p)]

\* the checks on a parsed response, in the code's order
TxRxCheck(f, p, tid) ==
    IF p.version # 0 THEN Continue(f, EB_ERR_MSG_FORMAT, FALSE)
    ELSE IF p.transaction_id # tid THEN Continue(f, EB_ERR_MSG_FORMAT, TRUE)
    ELSE IF p.type = EB_MT_TIMEOUT THEN Continue(f, EB_ERR_TIMEOUT, FALSE)
    ELSE IF p.type # f.response_type THEN Continue(f, EB_ERR_MSG_FORMAT, FALSE)
    ELSE [ctl |-> "return", f |-> f, sent |-> 0, out |-> Return(p)]

\* a coordinator that records a refusal as a timeout
TxRxReceivedRefusalAsTimeout(f, r, tid) ==
    IF r.rx = "timeout" THEN Continue(f, EB_ERR_TIMEOUT, FALSE)
    ELSE IF r.rx = "refused" THEN Continue(f, EB_ERR_TIMEOUT, FALSE)
    ELSE LET parsed == ParsePacket(r.raw) IN
         IF parsed.kind = "raise"
         THEN [ctl |-> "raise", f |-> f, sent |-> 0, out |-> parsed]
         ELSE TxRxCheck(f, parsed.value, tid)

\* the body of one attempt after its receive wait ended with r, then the
\* loop head again; tid is self.transaction_id at that moment
TxRxReceived(f, r, tid) ==
    IF r.rx = "timeout" THEN Continue(f, EB_ERR_TIMEOUT, FALSE)
    ELSE IF r.rx = "refused" THEN Continue(f, EB_ERR_CONNECTION, FALSE)
    ELSE LET parsed == ParsePacket(r.raw) IN
         IF parsed.kind = "raise"
         THEN [ctl |-> "raise", f |-> f, sent |-> 0, out |-> parsed]
         ELSE TxRxCheck(f, parsed.value, tid)

(***************************************************************************)
(* Client API.  A call is a record: [op |-> "multi_read", id_codes],       *)
(* [op |-> "single_write", id_code, value, eb_type],                       *)
(* [op |-> "get_connected_clients"], or, for the coordinator called on     *)
(* its own, [op |-> "_tx_rx", type, response_type, n_tries].               *)
(***************************************************************************)
NoCall == [op |-> "none"]

MultiReadCalls(lists) == {[op |-> "multi_read", id_codes |-> l] : l \in lists}

SingleWriteCalls(ids, values, types) ==
    {[op |-> "single_write", id_code |-> i, value |-> v, eb_type |-> ty] :
        i \in ids, v \in values, ty \in types}

ClientsCall == [op |-> "get_connected_clients"]

TxRxCalls(tries) ==
    {[op |-> "_tx_rx", type |-> EB_MT_PING_REQ, response_type |-> EB_MT_PING_RSP,
      n_tries |-> n] : n \in tries}

\* a range test that lets 0x10000 pass
IdOutOfRangeOffByOne(id) == id < 0 \/ id > UINT16_MAX + 1

\* the id-range test of multi_read and single_write
IdOutOfRange(id) == id < 0 \/ id > UINT16_MAX

\* multi_read without its `async with self.tx_rx_lock`
UsesGateWriteOnly(op) == op = "single_write"

\* the calls that run inside `async with self.tx_rx_lock`
UsesGate(op) == op \in {"multi_read", "single_write"}

\* a coercion that leaves the elements of a list as they are
CoercedScalarOnly(value, eb_type) ==
    IF eb_type \in {PyInt(EB_TYPE_DOUBLE), PyInt(EB_TYPE_FLOAT)}
    THEN IF value.py = "list" THEN value ELSE PyFloat(value.v)
    ELSE value

\* the value single_write packs: coerced to float for the float types
Coerced(value, eb_type) ==
    IF eb_type \in {PyInt(EB_TYPE_DOUBLE), PyInt(EB_TYPE_FLOAT)}
    THEN IF value.py = "list"
         THEN PyList([k \in 1..Len(value.items) |-> PyFloat(value.items[k].v)])
         ELSE PyFloat(value.v)
    ELSE value

\* a multi_read that gives its exchange a budget of 5 attempts
MultiReadRequestFiveTries(c) ==
    IF \E k \in 1..Len(c.id_codes) : IdOutOfRange(c.id_codes[k])
    THEN [ok |-> FALSE, out |-> Return(None)]
    ELSE [ok |-> TRUE, type |-> EB_MT_READ_DATA_REQ,
          payload |-> [k \in 1..Len(c.id_codes) |-> Pack(PyInt(c.id_codes[k]), FALSE)],
          response_type |-> EB_MT_READ_DATA_RSP, n_tries |-> 5]

\* what a call does before its exchange: [ok |-> FALSE, out] when it returns
\* early, and otherwise the request it builds and the arguments of its _tx_rx
\* multi_read, from the gate to its call of _tx_rx
MultiReadRequest(c) ==
    IF \E k \in 1..Len(c.id_codes) : IdOutOfRange(c.id_codes[k])
    THEN [ok |-> FALSE, out |-> Return(None)]
    ELSE [ok |-> TRUE, type |-> EB_MT_READ_DATA_REQ,
          payload |-> [k \in 1..Len(c.id_codes) |-> Pack(PyInt(c.id_codes[k]), FALSE)],
          response_type |-> EB_MT_READ_DATA_RSP, n_tries |-> 3]

\* single_write without its id-range test
SingleWriteRequestUnchecked(c) ==
    [ok |-> TRUE, type |-> EB_MT_WRITE_DATA_REQ,
     payload |-> << Pack(PyInt(c.id_code), c.eb_type = PyInt(EB_TYPE_FLOAT)),
                    Pack(Coerced(c.value, c.eb_type), c.eb_type = PyInt(EB_TYPE_FLOAT)) >>,
     response_type |-> EB_MT_WRITE_DATA_RSP, n_tries |-> 3]

\* single_write, from the gate to its call of _tx_rx
SingleWriteRequest(c) ==
    IF IdOutOfRange(c.id_code)
    THEN [ok |-> FALSE, out |-> Return(EbResult(EB_ERR_WRONG_PARAMETER))]
    ELSE [ok |-> TRUE, type |-> EB_MT_WRITE_DATA_REQ,
          payload |-> << Pack(PyInt(c.id_code), c.eb_type = PyInt(EB_TYPE_FLOAT)),
                         Pack(Coerced(c.value, c.eb_type), c.eb_type = PyInt(EB_TYPE_FLOAT)) >>,
          response_type |-> EB_MT_WRITE_DATA_RSP, n_tries |-> 3]

\* get_connected_clients, up to its call of _tx_rx
ClientsRequest ==
    [ok |-> TRUE, type |-> EB_MT_CLIENTS_REQ, payload |-> << >>,
     response_type |-> EB_MT_CLIENTS_RSP, n_tries |-> 3]

\* a caller of _tx_rx with a budget of its own
TxRxRequest(c) ==
    [ok |-> TRUE, type |-> c.type, payload |-> << >>,
     response_type |-> c.response_type, n_tries |-> c.n_tries]

Prepare(c) ==
    CASE c.op = "multi_read" -> MultiReadRequest(c)
      [] c.op = "single_write" -> SingleWriteRequest(c)
      [] c.op = "get_connected_clients" -> ClientsRequest
      [] c.op = "_tx_rx" -> TxRxRequest(c)

\* dict.fromkeys(id_codes)
FromKeys(id_codes) == [id \in {id_codes[k] : k \in 1..Len(id_codes)} |-> None]

\* an entry that never takes the value of its data point
ReadResultNoValue(dp_id, code, has_value, value) ==
    [py |-> "dict", data_point_id |-> dp_id, result_code |-> code,
     result_string |-> eb_result_dict[code], data_type |-> None]

\* one entry of the mapping multi_read returns
ReadResult(dp_id, code, has_value, value) ==
    IF has_value
    THEN [py |-> "dict", data_point_id |-> dp_id, result_code |-> code,
          result_string |-> eb_result_dict[code], data_type |-> None,
          num_elements |-> IF value.py = "list" THEN Len(value.items) ELSE 1,
          value |-> value]
    ELSE [py |-> "dict", data_point_id |-> dp_id, result_code |-> code,
          result_string |-> eb_result_dict[code], data_type |-> None]

\* a decoding loop that returns the entries decoded so far when it meets an
\* id that is not an integer of [0, 0xFFFF]
RECURSIVE MultiReadLoopPartial(_, _, _)
MultiReadLoopPartial(payload, at, results) ==
    IF at > Len(payload) THEN Return([py |-> "dict", items |-> results])
    ELSE LET dp_id == Unpacked(payload[at]) IN
         IF dp_id.py # "int" THEN Return([py |-> "dict", items |-> results])
         ELSE IF dp_id.v < 0 \/ dp_id.v > UINT16_MAX
              THEN Return([py |-> "dict", items |-> results])
         ELSE IF at + 1 > Len(payload) THEN Raise("OutOfData")
         ELSE LET code == Unpacked(payload[at + 1]) IN
              IF code.py # "int" \/ code.v \notin EbResultValues THEN Raise("ValueError")
              ELSE IF code.v \notin DOMAIN eb_result_dict THEN Raise("KeyError")
              ELSE IF code.v = EB_OK
                   THEN IF at + 2 > Len(payload) THEN Raise("OutOfData")
                        ELSE MultiReadLoopPartial(payload, at + 3,
                                (dp_id.v :> ReadResult(dp_id.v, code.v, TRUE,
                                                        Unpacked(payload[at + 2])))
                                @@ results)
                   ELSE MultiReadLoopPartial(payload, at + 2,
                                (dp_id.v :> ReadResult(dp_id.v, code.v, FALSE, None))
                                @@ results)

\* the decoding loop of multi_read, the cursor before object `at`
RECURSIVE MultiReadLoop(_, _, _)
MultiReadLoop(payload, at, results) ==
    IF at > Len(payload) THEN Return([py |-> "dict", items |-> results])
    ELSE LET dp_id == Unpacked(payload[at]) IN
         IF dp_id.py # "int" THEN Return(None)
         ELSE IF dp_id.v < 0 \/ dp_id.v > UINT16_MAX THEN Return(None)
         ELSE IF at + 1 > Len(payload) THEN Raise("OutOfData")
         ELSE LET code == Unpacked(payload[at + 1]) IN
              IF code.py # "int" \/ code.v \notin EbResultValues THEN Raise("ValueError")
              ELSE IF code.v \notin DOMAIN eb_result_dict THEN Raise("KeyError")
              ELSE IF code.v = EB_OK
                   THEN IF at + 2 > Len(payload) THEN Raise("OutOfData")
                        ELSE MultiReadLoop(payload, at + 3,
                                (dp_id.v :> ReadResult(dp_id.v, code.v, TRUE,
                                                        Unpacked(payload[at + 2])))
                                @@ results)
                   ELSE MultiReadLoop(payload, at + 2,
                                (dp_id.v :> ReadResult(dp_id.v, code.v, FALSE, None))
                                @@ results)

\* a decoding loop that does not compare the id of the response with the
\* written id
RECURSIVE SingleWriteLoopAnyId(_, _, _, _)
SingleWriteLoopAnyId(payload, at, id_code, result_code) ==
    IF at > Len(payload) THEN Return(EbResult(result_code))
    ELSE LET dp_id == Unpacked(payload[at]) IN
         IF dp_id.py # "int" THEN Return(EbResult(EB_ERR_MSG_FORMAT))
         ELSE IF dp_id.v < 0 \/ dp_id.v > UINT16_MAX THEN Return(EbResult(EB_ERR_MSG_FORMAT))
         ELSE IF at + 1 > Len(payload) THEN Raise("OutOfData")
         ELSE LET code == Unpacked(payload[at + 1]) IN
              IF code.py # "int" \/ code.v \notin EbResultValues THEN Raise("ValueError")
              ELSE SingleWriteLoopAnyId(payload, at + 2, id_code, code.v)

\* the decoding loop of single_write
RECURSIVE SingleWriteLoop(_, _, _, _)
SingleWriteLoop(payload, at, id_code, result_code) ==
    IF at > Len(payload) THEN Return(EbResult(result_code))
    ELSE LET dp_id == Unpacked(payload[at]) IN
         IF dp_id.py # "int" THEN Return(EbResult(EB_ERR_MSG_FORMAT))
         ELSE IF dp_id.v < 0 \/ dp_id.v > UINT16_MAX THEN Return(EbResult(EB_ERR_MSG_FORMAT))
         ELSE IF dp_id.v # id_code THEN Return(EbResult(EB_ERR_MSG_FORMAT))
         ELSE IF at + 1 > Len(payload) THEN Raise("OutOfData")
         ELSE LET code == Unpacked(payload[at + 1]) IN
              IF code.py # "int" \/ code.v \notin EbResultValues THEN Raise("ValueError")
              ELSE SingleWriteLoop(payload, at + 2, id_code, code.v)

\* get_connected_clients after its exchange was accepted
ClientsDecode(payload) ==
    IF payload = << >> THEN Raise("OutOfData")
    ELSE Return([py |-> "tuple", result_code |-> EbResult(EB_OK),
                 clients |-> Unpacked(payload[1])])

\* a call that hands the coordinator's failure result on to its caller
ApiFinishPassesFailure(c, x) ==
    IF x.kind = "raise" \/ c.op = "_tx_rx" THEN x
    ELSE IF x.value.py = "EbResult" THEN x
    ELSE IF x.value.py = "None" THEN Raise("TypeError")
    ELSE CASE c.op = "multi_read" ->
                MultiReadLoop(x.value.payload, 1, FromKeys(c.id_codes))
           [] c.op = "single_write" ->
                SingleWriteLoop(x.value.payload, 1, c.id_code, EB_ERR_NOT_FOUND)
           [] c.op = "get_connected_clients" -> ClientsDecode(x.value.payload)

\* the code of a call after _tx_rx handed back x (a Return or a Raise): an
\* error goes on to the caller, an EbResult makes the call return None, and
\* the payload of a packet is decoded
ApiFinish(c, x) ==
    IF x.kind = "raise" \/ c.op = "_tx_rx" THEN x
    ELSE IF x.value.py = "EbResult" THEN Return(None)
    ELSE IF x.value.py = "None" THEN Raise("TypeError")
    ELSE CASE c.op = "multi_read" ->
                MultiReadLoop(x.value.payload, 1, FromKeys(c.id_codes))
           [] c.op = "single_write" ->
                SingleWriteLoop(x.value.payload, 1, c.id_code, EB_ERR_NOT_FOUND)
           [] c.op = "get_connected_clients" -> ClientsDecode(x.value.payload)

(***************************************************************************)
(* State.                                                                  *)
(***************************************************************************)
VARIABLES
    transaction_id, \* Client.transaction_id
    tx_rx_lock,     \* Client.tx_rx_lock: [locked, waiters], waiters in arrival order
    pc,             \* per task: "idle", "wait_lock", "rx" (in a receive wait),
                    \* "await" (the worker script, in a call of the Client), "done"
    call,           \* per task: the call it is in (or has just ended)
    frame,          \* per task: the locals of its _tx_rx
    xout,           \* per task: what its _tx_rx handed back
    outcome,        \* per task: what its call handed back
    sends,          \* per task: datagrams its current call has sent
    recvs,          \* per task: receive waits of its current call that have ended
    timeouts,       \* per task: those of them that ended in a local timeout
    refusals,       \* per task: those of them that ended in a refusal of the peer
    ncalls,         \* calls started on the Connection
    nbuilt,         \* requests built on the Connection
    last_packet,    \* the request built last
    response,       \* per task: the reply line a bridge built from the outcome
                    \* of the task's call, None while there is none
    peer            \* a second Client, used by task "b" where a behaviour has
                    \* two Connections: its transaction_id and tx_rx_lock, the
                    \* requests built on it, and the calls task "b" has made

vars == << transaction_id, tx_rx_lock, pc, call, frame, xout, outcome,
           sends, recvs, timeouts, refusals, ncalls, nbuilt, last_packet, response, peer >>

\* Client.__init__ for the second Client
NewPeer(ncalls_so_far) ==
    [transaction_id |-> 0,
     tx_rx_lock |-> [locked |-> FALSE, waiters |-> << >>],
     nbuilt |-> 0,
     ncalls |-> ncalls_so_far]

\* Client.__init__, and no task in a call
Init ==
    /\ transaction_id = 0
    /\ tx_rx_lock = [locked |-> FALSE, waiters |-> << >>]
    /\ pc = [t \in Tasks |-> "idle"]
    /\ call = [t \in Tasks |-> NoCall]
    /\ frame = [t \in Tasks |-> NoFrame]
    /\ xout = [t \in Tasks |-> Running]
    /\ outcome = [t \in Tasks |-> Running]
    /\ sends = [t \in Tasks |-> 0]
    /\ recvs = [t \in Tasks |-> 0]
    /\ timeouts = [t \in Tasks |-> 0]
    /\ refusals = [t \in Tasks |-> 0]
    /\ ncalls = 0
    /\ nbuilt = 0
    /\ last_packet = None
    /\ response = [t \in Tasks |-> None]
    /\ peer = NewPeer(0)

(***************************************************************************)
(* asyncio.Lock: acquire() takes a free lock that nobody waits for at      *)
(* once, and otherwise queues; release() frees it for the first waiter.    *)
(***************************************************************************)
LockFree(lk) == ~lk.locked /\ lk.waiters = << >>
Acquired(lk) == [lk EXCEPT !.locked = TRUE]
Released(lk) == [lk EXCEPT !.locked = FALSE]

(***************************************************************************)
(* What a task runs between two suspension points, as a function of the    *)
(* state it starts from: [pc, tid, built, packet, f, sent, xout, out].     *)
(***************************************************************************)
\* a call that takes a transaction id before it validates its ids
EnterCountsInvalid(c, tid) ==
    LET p == Prepare(c) IN
    IF ~p.ok
    THEN [pc |-> "done", tid |-> NextTid(tid), built |-> 0, packet |-> None,
          f |-> NoFrame, sent |-> 0, xout |-> Running, out |-> p.out]
    ELSE LET id == NextTid(tid)
             pkt == CreatePacket(id, p.type, p.payload)
             r == TxRxLoop([tx_packet |-> pkt, response_type |-> p.response_type,
                            n_tries |-> p.n_tries, it |-> 0, skip_tx |-> FALSE,
                            result |-> None])
         IN  IF r.ctl = "wait"
             THEN [pc |-> "rx", tid |-> id, built |-> 1, packet |-> pkt,
                   f |-> r.f, sent |-> r.sent, xout |-> Running, out |-> Running]
             ELSE [pc |-> "done", tid |-> id, built |-> 1, packet |-> pkt,
                   f |-> r.f, sent |-> r.sent, xout |-> r.out,
                   out |-> ApiFinish(c, r.out)]

\* a call from its start (the gate held, if it has one) to its first receive
\* wait or to its end
Enter(c, tid) ==
    LET p == Prepare(c) IN
    IF ~p.ok
    THEN [pc |-> "done", tid |-> tid, built |-> 0, packet |-> None,
          f |-> NoFrame, sent |-> 0, xout |-> Running, out |-> p.out]
    ELSE LET id == NextTid(tid)
             pkt == CreatePacket(id, p.type, p.payload)
             r == TxRxLoop([tx_packet |-> pkt, response_type |-> p.response_type,
                            n_tries |-> p.n_tries, it |-> 0, skip_tx |-> FALSE,
                            result |-> None])
         IN  IF r.ctl = "wait"
             THEN [pc |-> "rx", tid |-> id, built |-> 1, packet |-> pkt,
                   f |-> r.f, sent |-> r.sent, xout |-> Running, out |-> Running]
             ELSE [pc |-> "done", tid |-> id, built |-> 1, packet |-> pkt,
                   f |-> r.f, sent |-> r.sent, xout |-> r.out,
                   out |-> ApiFinish(c, r.out)]

\* a call from the end of a receive wait to its next receive wait or to its end
Resume(c, f, r, tid) ==
    LET s == TxRxReceived(f, r, tid) IN
    IF s.ctl = "wait"
    THEN [pc |-> "rx", f |-> s.f, sent |-> s.sent, xout |-> Running, out |-> Running]
    ELSE [pc |-> "done", f |-> s.f, sent |-> s.sent, xout |-> s.out,
          out |-> ApiFinish(c, s.out)]

(***************************************************************************)
(* Actions.                                                                *)
(***************************************************************************)
\* task t runs call c from its start, lk being the gate as t holds it
Begin(t, c, lk) ==
    LET e == Enter(c, transaction_id) IN
    /\ transaction_id' = e.tid
    /\ tx_rx_lock' = IF UsesGate(c.op) /\ e.pc = "done" THEN Released(lk) ELSE lk
    /\ pc' = [pc EXCEPT ![t] = e.pc]
    /\ call' = [call EXCEPT ![t] = c]
    /\ frame' = [frame EXCEPT ![t] = e.f]
    /\ xout' = [xout EXCEPT ![t] = e.xout]
    /\ outcome' = [outcome EXCEPT ![t] = e.out]
    /\ sends' = [sends EXCEPT ![t] = e.sent]
    /\ recvs' = [recvs EXCEPT ![t] = 0]
    /\ timeouts' = [timeouts EXCEPT ![t] = 0]
    /\ refusals' = [refusals EXCEPT ![t] = 0]
    /\ nbuilt' = nbuilt + e.built
    /\ last_packet' = IF e.built = 1 THEN e.packet ELSE last_packet
    /\ UNCHANGED << response, peer >>

\* task t calls c: a call with the gate takes it or queues for it
Call(t, c) ==
    /\ pc[t] = "idle"
    /\ ncalls < MaxCalls
    /\ ncalls' = ncalls + 1
    /\ IF ~UsesGate(c.op) THEN Begin(t, c, tx_rx_lock)
       ELSE IF LockFree(tx_rx_lock) THEN Begin(t, c, Acquired(tx_rx_lock))
       ELSE /\ tx_rx_lock' = [tx_rx_lock EXCEPT !.waiters = Append(@, t)]
            /\ pc' = [pc EXCEPT ![t] = "wait_lock"]
            /\ call' = [call EXCEPT ![t] = c]
            /\ outcome' = [outcome EXCEPT ![t] = Running]
            /\ xout' = [xout EXCEPT ![t] = Running]
            /\ frame' = [frame EXCEPT ![t] = NoFrame]
            /\ sends' = [sends EXCEPT ![t] = 0]
            /\ recvs' = [recvs EXCEPT ![t] = 0]
            /\ timeouts' = [timeouts EXCEPT ![t] = 0]
            /\ refusals' = [refusals EXCEPT ![t] = 0]
            /\ UNCHANGED << transaction_id, nbuilt, last_packet, response, peer >>

\* Client.multi_read(id_codes), with id_codes from lists
multi_read(t, lists) == \E c \in MultiReadCalls(lists) : Call(t, c)

\* Client.single_write(id_code, value, eb_type)
single_write(t, ids, values, types) ==
    \E c \in SingleWriteCalls(ids, values, types) : Call(t, c)

\* Client.get_connected_clients()
get_connected_clients(t) == Call(t, ClientsCall)

\* Client._tx_rx called on a request just built, with n_tries from tries
tx_rx(t, tries) == \E c \in TxRxCalls(tries) : Call(t, c)

\* the first waiter of the released gate takes it and runs its call
LockGranted(t) ==
    /\ pc[t] = "wait_lock"
    /\ ~tx_rx_lock.locked
    /\ tx_rx_lock.waiters # << >>
    /\ Head(tx_rx_lock.waiters) = t
    /\ Begin(t, call[t], [locked |-> TRUE, waiters |-> Tail(tx_rx_lock.waiters)])
    /\ UNCHANGED ncalls

\* a gate taken with acquire() and given back with release() on the returns
\* only: a call that ends by raising keeps it
ReceiveKeepsGateOnRaise(t, r) ==
    /\ pc[t] = "rx"
    /\ LET s == Resume(call[t], frame[t], r, transaction_id) IN
       /\ pc' = [pc EXCEPT ![t] = s.pc]
       /\ frame' = [frame EXCEPT ![t] = s.f]
       /\ xout' = [xout EXCEPT ![t] = s.xout]
       /\ outcome' = [outcome EXCEPT ![t] = s.out]
       /\ sends' = [sends EXCEPT ![t] = @ + s.sent]
       /\ tx_rx_lock' = IF UsesGate(call[t].op) /\ s.pc = "done" /\ s.out.kind # "raise"
                        THEN Released(tx_rx_lock) ELSE tx_rx_lock
    /\ recvs' = [recvs EXCEPT ![t] = @ + 1]
    /\ timeouts' = [timeouts EXCEPT ![t] = IF r.rx = "timeout" THEN @ + 1 ELSE @]
    /\ refusals' = [refusals EXCEPT ![t] = IF r.rx = "refused" THEN @ + 1 ELSE @]
    /\ UNCHANGED << transaction_id, call, ncalls, nbuilt, last_packet, response, peer >>

\* the receive wait of task t ends with r
Receive(t, r) ==
    /\ pc[t] = "rx"
    /\ LET s == Resume(call[t], frame[t], r, transaction_id) IN
       /\ pc' = [pc EXCEPT ![t] = s.pc]
       /\ frame' = [frame EXCEPT ![t] = s.f]
       /\ xout' = [xout EXCEPT ![t] = s.xout]
       /\ outcome' = [outcome EXCEPT ![t] = s.out]
       /\ sends' = [sends EXCEPT ![t] = @ + s.sent]
       /\ tx_rx_lock' = IF UsesGate(call[t].op) /\ s.pc = "done"
                        THEN Released(tx_rx_lock) ELSE tx_rx_lock
    /\ recvs' = [recvs EXCEPT ![t] = @ + 1]
    /\ timeouts' = [timeouts EXCEPT ![t] = IF r.rx = "timeout" THEN @ + 1 ELSE @]
    /\ refusals' = [refusals EXCEPT ![t] = IF r.rx = "refused" THEN @ + 1 ELSE @]
    /\ UNCHANGED << transaction_id, call, ncalls, nbuilt, last_packet, response, peer >>

\* the caller of task t takes the result; t is free for another call
Finish(t) ==
    /\ pc[t] = "done"
    /\ pc' = [pc EXCEPT ![t] = "idle"]
    /\ call' = [call EXCEPT ![t] = NoCall]
    /\ frame' = [frame EXCEPT ![t] = NoFrame]
    /\ xout' = [xout EXCEPT ![t] = Running]
    /\ outcome' = [outcome EXCEPT ![t] = Running]
    /\ sends' = [sends EXCEPT ![t] = 0]
    /\ recvs' = [recvs EXCEPT ![t] = 0]
    /\ timeouts' = [timeouts EXCEPT ![t] = 0]
    /\ refusals' = [refusals EXCEPT ![t] = 0]
    /\ response' = [response EXCEPT ![t] = None]
    /\ UNCHANGED << transaction_id, tx_rx_lock, ncalls, nbuilt, last_packet, peer >>

\* _create_packet on its own: one more request is built
BuildRequest ==
    /\ nbuilt < MaxBuilt
    /\ transaction_id' = NextTid(transaction_id)
    /\ last_packet' = CreatePacket(transaction_id', EB_MT_PING_REQ, << >>)
    /\ nbuilt' = nbuilt + 1
    /\ UNCHANGED << tx_rx_lock, pc, call, frame, xout, outcome,
                    sends, recvs, timeouts, refusals, ncalls, response, peer >>

\* _create_packet(type, payload) and then _parse_packet on the bytes it made
create_parse(t, types, payloads) ==
    \E type \in types, payload \in payloads :
        /\ pc[t] = "idle"
        /\ ncalls < MaxCalls
        /\ ncalls' = ncalls + 1
        /\ transaction_id' = NextTid(transaction_id)
        /\ last_packet' = CreatePacket(transaction_id', type, payload)
        /\ nbuilt' = nbuilt + 1
        /\ pc' = [pc EXCEPT ![t] = "done"]
        /\ call' = [call EXCEPT ![t] = [op |-> "_create_packet", type |-> type,
                                        payload |-> payload]]
        /\ outcome' = [outcome EXCEPT ![t] = ParsePacket(last_packet')]
        /\ UNCHANGED << tx_rx_lock, frame, xout, sends, recvs, timeouts, refusals, response, peer >>

(***************************************************************************)
(* connect_to_device, of core/network_utils.py ("core") and of             *)
(* network_utils.py ("top").  While it is in a get_connected_clients, the  *)
(* call record of the task is that call's, with the module (by), the       *)
(* attempt of the loop and what client.connect handed back in it (ret);    *)
(* once it has ended, the call record is [op |-> "connect_to_device",      *)
(* module, attempt, ret, clients], attempt being the last attempt made and *)
(* clients what the get_connected_clients of that attempt handed back      *)
(* (Running if the attempt made none).                                     *)
(***************************************************************************)
max_connect_attempts == 3

PyBool(b) == [py |-> "bool", b |-> b]

\* Client.connect: 0, or the error of a failed resolution or socket
ConnectOutcomes == {Return(PyInt(0)), Raise("OSError")}

\* core/network_utils.py: `if ret != 0: ... continue`, and then the call of
\* get_connected_clients
CoreCallsClients(ret) == ret.value = PyInt(0)

\* network_utils.py: the call of get_connected_clients stands inside
\* `if ret != 0:`
TopCallsClients(ret) == ret.value # PyInt(0)

\* the loop of connect_to_device from the top of attempt k to the receive
\* wait of a get_connected_clients or to the end of the function; conns[k] is
\* what client.connect hands back in attempt k, last what attempt k - 1 did.
\* An error raised in an attempt is caught and the loop goes on; in "top" an
\* attempt whose connect returned 0 goes on to a print of result_code, which
\* is not bound then, and that error is caught too.
RECURSIVE DeviceFrom(_, _, _, _, _)
DeviceFrom(module, k, conns, tid, last) ==
    IF k > max_connect_attempts
    THEN [pc |-> "done", attempt |-> k - 1, ret |-> last.ret, clients |-> last.clients,
          out |-> Return(PyBool(FALSE))]
    ELSE LET ret == conns[k] IN
         IF ret.kind = "raise"
         THEN DeviceFrom(module, k + 1, conns, tid, [ret |-> ret, clients |-> Running])
         ELSE IF (module = "core" /\ CoreCallsClients(ret))
                 \/ (module = "top" /\ TopCallsClients(ret))
         THEN [pc |-> "rx", attempt |-> k, ret |-> ret, e |-> Enter(ClientsCall, tid)]
         ELSE DeviceFrom(module, k + 1, conns, tid, [ret |-> ret, clients |-> Running])

\* connect_to_device after the get_connected_clients of attempt k handed back
\* o: `result_code, _ = ...` raises for None, and every error is caught
DeviceAfter(module, k, ret, o, conns, tid) ==
    IF o.kind = "return" /\ o.value.py = "tuple" /\ o.value.result_code = EbResult(EB_OK)
    THEN [pc |-> "done", attempt |-> k, ret |-> ret, clients |-> o,
          out |-> Return(PyBool(TRUE))]
    ELSE DeviceFrom(module, k + 1, conns, tid, [ret |-> ret, clients |-> o])

\* task t goes on as d says: into the exchange of a get_connected_clients
\* (recvs_now receive waits of that call have ended), or to the end of
\* connect_to_device, f and x being the last frame and result of _tx_rx
DeviceGoes(t, module, d, f, x, sent_now, recvs_now) ==
    /\ IF d.pc = "rx"
       THEN /\ transaction_id' = d.e.tid
            /\ nbuilt' = nbuilt + 1
            /\ last_packet' = d.e.packet
            /\ call' = [call EXCEPT ![t] = [op |-> "get_connected_clients", by |-> module,
                                            attempt |-> d.attempt, ret |-> d.ret]]
            /\ frame' = [frame EXCEPT ![t] = d.e.f]
            /\ xout' = [xout EXCEPT ![t] = Running]
            /\ outcome' = [outcome EXCEPT ![t] = Running]
            /\ sends' = [sends EXCEPT ![t] = d.e.sent]
            /\ recvs' = [recvs EXCEPT ![t] = 0]
       ELSE /\ UNCHANGED << transaction_id, nbuilt, last_packet >>
            /\ call' = [call EXCEPT ![t] = [op |-> "connect_to_device", module |-> module,
                                            attempt |-> d.attempt, ret |-> d.ret,
                                            clients |-> d.clients]]
            /\ frame' = [frame EXCEPT ![t] = f]
            /\ xout' = [xout EXCEPT ![t] = x]
            /\ outcome' = [outcome EXCEPT ![t] = d.out]
            /\ sends' = [sends EXCEPT ![t] = sent_now]
            /\ recvs' = [recvs EXCEPT ![t] = recvs_now]
    /\ pc' = [pc EXCEPT ![t] = d.pc]
    /\ UNCHANGED << tx_rx_lock, response, peer >>

\* connect_to_device(client) of a module of modules
connect_to_device(t, modules) ==
    \E module \in modules, conns \in [1..max_connect_attempts -> ConnectOutcomes] :
        /\ pc[t] = "idle"
        /\ ncalls < MaxCalls
        /\ ncalls' = ncalls + 1
        /\ DeviceGoes(t, module,
                      DeviceFrom(module, 1, conns, transaction_id,
                                 [ret |-> Running, clients |-> Running]),
                      NoFrame, Running, 0, 0)
        /\ timeouts' = [timeouts EXCEPT ![t] = 0]
        /\ refusals' = [refusals EXCEPT ![t] = 0]

\* a receive wait of the get_connected_clients of connect_to_device ends
\* with r
DeviceReceive(t, r) ==
    \E conns \in [1..max_connect_attempts -> ConnectOutcomes] :
        /\ pc[t] = "rx"
        /\ call[t].op = "get_connected_clients" /\ "by" \in DOMAIN call[t]
        /\ LET s == Resume(ClientsCall, frame[t], r, transaction_id) IN
           IF s.pc = "rx"
           THEN /\ frame' = [frame EXCEPT ![t] = s.f]
                /\ sends' = [sends EXCEPT ![t] = @ + s.sent]
                /\ recvs' = [recvs EXCEPT ![t] = @ + 1]
                /\ UNCHANGED << transaction_id, tx_rx_lock, pc, call, xout, outcome,
                                nbuilt, last_packet, response, peer >>
           ELSE DeviceGoes(t, call[t].by,
                           DeviceAfter(call[t].by, call[t].attempt, call[t].ret, s.out,
                                       conns, transaction_id),
                           s.f, s.xout, sends[t] + s.sent, recvs[t] + 1)
        /\ timeouts' = [timeouts EXCEPT ![t] = IF r.rx = "timeout" THEN @ + 1 ELSE @]
        /\ refusals' = [refusals EXCEPT ![t] = IF r.rx = "refused" THEN @ + 1 ELSE @]
        /\ UNCHANGED ncalls

(***************************************************************************)
(* The worker script, workerA.py.  The script makes its calls of the       *)
(* Client one after the other, so the exchange of each call is taken by    *)
(* what _tx_rx hands back for it (x: an accepted packet or the result of   *)
(* an exhausted exchange), and the call itself is decoded as the Client    *)
(* decodes it.  The call record of the task holds the locals of main or    *)
(* of switch_main_mode, and `at`, the place where the function waits; the  *)
(* Connection's own variables are left as they are.                        *)
(***************************************************************************)
SET_VOLTAGE == 2
SET_CURRENT == 500
STOP_CURRENT == 0
MAX_ENABLE_ATTEMPTS == 3
MAIN_MODE_TIMEOUT == 180
MODE_POLL_INTERVAL == 5
MAX_VALID_OP_MODE == 5
SAFE_BUS_VOLTAGE_THRESHOLD == 10
DP_PM_FUSE == 12551
DP_BUS_VOLTAGE == 4097
DP_OP_MODE == 8192
DP_REQ_MODE == 8193
DP_SET_CURRENT == 4352
DP_SET_VOLTAGE == 4353

\* isinstance(v, (int, float)), `v == n` for an int n, and bool(v)
IsNumber(v) == v.py \in {"int", "float"}
PyEq(v, n) == IsNumber(v) /\ v.v = n
Truthy(v) ==
    CASE v.py \in {"int", "float"} -> v.v # 0
      [] v.py = "list" -> Len(v.items) > 0
      [] v.py = "str" -> v.s # ""
      [] OTHER -> FALSE

\* isinstance(val, list) and all(val)
AllEnabled(val) ==
    val.py = "list" /\ \A k \in 1..Len(val.items) : Truthy(val.items[k])

\* read_datapoint: the value of the entry of dp_id, None where there is none
\* or where the call or the lookup raised
ReadDatapoint(dp_id, x) ==
    LET out == ApiFinish([op |-> "multi_read", id_codes |-> << dp_id >>], x) IN
    IF out.kind = "raise" THEN None
    ELSE IF out.value.py = "None" THEN None
    ELSE IF dp_id \notin DOMAIN out.value.items THEN None
    ELSE LET r == out.value.items[dp_id] IN
         IF r.py = "None" THEN None
         ELSE IF "value" \in DOMAIN r THEN r.value
         ELSE None

\* client.single_write(dp_id, value, eb_type) once its exchange handed back x
WriteResult(dp_id, value, eb_type, x) ==
    ApiFinish([op |-> "single_write", id_code |-> dp_id, value |-> value,
               eb_type |-> eb_type], x)

\* the locals of a switch_main_mode: written is TRUE once the write returned
\* EB_OK, polls counts the reads of DP_OP_MODE, last is what the last of them
\* read, and result is what the function returned (at = "ret")
NewSwitch(target_mode, timeout, poll_interval, max_valid_op_mode) ==
    [op |-> "switch_main_mode", at |-> "write", target_mode |-> target_mode,
     timeout |-> timeout, poll_interval |-> poll_interval,
     max_valid_op_mode |-> max_valid_op_mode,
     written |-> FALSE, elapsed |-> 0, polls |-> 0, last |-> None, result |-> FALSE]

\* a loop that polls once more when the time is just over
SwitchLoopOneMore(sw) ==
    IF sw.elapsed <= sw.timeout
    THEN [sw EXCEPT !.at = "poll"]
    ELSE [sw EXCEPT !.at = "ret", !.result = FALSE]

\* `while elapsed < timeout:` and the return after the loop
SwitchLoop(sw) ==
    IF sw.elapsed < sw.timeout
    THEN [sw EXCEPT !.at = "poll"]
    ELSE [sw EXCEPT !.at = "ret", !.result = FALSE]

\* switch_main_mode from its start to its first poll or its return
SwitchWrite(sw, x) ==
    LET result == WriteResult(DP_REQ_MODE, PyInt(sw.target_mode),
                              PyInt(EB_TYPE_UINT32), x) IN
    IF result.kind = "raise" THEN [sw EXCEPT !.at = "ret", !.result = FALSE]
    ELSE IF result.value # EbResult(EB_OK) THEN [sw EXCEPT !.at = "ret", !.result = FALSE]
    ELSE SwitchLoop([sw EXCEPT !.written = TRUE, !.elapsed = 0])

\* the body of the loop of switch_main_mode from the read of DP_OP_MODE
SwitchPoll(sw, x) ==
    LET actual_mode == ReadDatapoint(DP_OP_MODE, x)
        s == [sw EXCEPT !.elapsed = @ + sw.poll_interval, !.polls = @ + 1,
                        !.last = actual_mode]
    IN  IF actual_mode = None THEN SwitchLoop(s)
        ELSE IF PyEq(actual_mode, sw.target_mode)
             THEN [s EXCEPT !.at = "ret", !.result = TRUE]
        ELSE IF actual_mode.py = "int" /\ actual_mode.v > sw.max_valid_op_mode
             THEN [s EXCEPT !.at = "ret", !.result = FALSE]
        ELSE SwitchLoop(s)

SwitchStep(sw, x) == IF sw.at = "write" THEN SwitchWrite(sw, x) ELSE SwitchPoll(sw, x)

\* the locals of main: enables counts the calls of enable_all_pm_modules,
\* req lists the modes written to DP_REQ_MODE with the result of each write,
\* sw holds the locals of the switch_main_mode main is in, and out is the
\* exit code main returned or the error it raised (at = "exit")
NewMain ==
    [op |-> "main", at |-> "bus", bus_voltage |-> None, op_mode |-> None, val |-> None,
     attempt |-> 0, enables |-> 0, req |-> << >>, sw |-> None, out |-> Running]

Exit(w, out) == [w EXCEPT !.at = "exit", !.out = out]

\* a loop that makes one enable attempt more
EnableLoopGoesOnOneMore(attempt) == attempt <= MAX_ENABLE_ATTEMPTS

\* `for attempt in range(1, MAX_ENABLE_ATTEMPTS + 1)`: there is an attempt
\* after this one
EnableLoopGoesOn(attempt) == attempt < MAX_ENABLE_ATTEMPTS

\* main calls switch_main_mode(client, target_mode)
StartSwitch(w, target_mode) ==
    [w EXCEPT !.at = "switch",
              !.sw = NewSwitch(target_mode, MAIN_MODE_TIMEOUT, MODE_POLL_INTERVAL,
                               MAX_VALID_OP_MODE)]

\* main from the read of the bus voltage to the call of switch_main_mode
MainChecks(w, x) ==
    CASE w.at = "bus" ->
            LET bus_voltage == ReadDatapoint(DP_BUS_VOLTAGE, x) IN
            IF bus_voltage = None THEN Exit(w, Return(PyInt(2)))
            ELSE [w EXCEPT !.bus_voltage = bus_voltage, !.at = "op"]
      [] w.at = "op" ->
            LET op_mode == ReadDatapoint(DP_OP_MODE, x)
                w1 == [w EXCEPT !.op_mode = op_mode]
            IN  IF op_mode = None THEN Exit(w1, Return(PyInt(2)))
                ELSE IF IsNumber(w.bus_voltage)
                        /\ w.bus_voltage.v > SAFE_BUS_VOLTAGE_THRESHOLD
                     THEN Exit(w1, Return(PyInt(0)))
                ELSE IF ~PyEq(op_mode, 0) THEN Exit(w1, Return(PyInt(0)))
                ELSE [w1 EXCEPT !.at = "fuse"]
      [] w.at = "fuse" ->
            LET val == ReadDatapoint(DP_PM_FUSE, x)
                w1 == [w EXCEPT !.val = val]
            IN  IF val = None THEN Exit(w1, Return(PyInt(3)))
                ELSE IF AllEnabled(val) THEN StartSwitch(w1, 1)
                ELSE [w1 EXCEPT !.attempt = 1, !.at = "enable"]
      [] w.at = "enable" ->
            \* enable_all_pm_modules catches every error, and main does not
            \* look at what it returns
            [w EXCEPT !.enables = @ + 1, !.at = "reread"]
      [] w.at = "reread" ->
            LET val == ReadDatapoint(DP_PM_FUSE, x)
                w1 == [w EXCEPT !.val = val]
            IN  IF val = None THEN Exit(w1, Return(PyInt(3)))
                ELSE IF AllEnabled(val) THEN StartSwitch(w1, 1)
                ELSE IF EnableLoopGoesOn(w.attempt)
                     THEN [w1 EXCEPT !.attempt = @ + 1, !.at = "enable"]
                ELSE Exit(w1, Return(PyInt(4)))

\* main while it is in a switch_main_mode, and what it does with the result
MainSwitch(w, x) ==
    LET sw == SwitchStep(w.sw, x)
        w1 == [w EXCEPT !.sw = sw,
                        !.req = IF w.sw.at = "write"
                                THEN Append(@, [mode |-> w.sw.target_mode,
                                                ok |-> sw.written])
                                ELSE @]
    IN  IF sw.at # "ret" THEN w1
        ELSE IF sw.target_mode = 1
             THEN IF ~sw.result THEN Exit(w1, Return(PyInt(5)))
                  ELSE [w1 EXCEPT !.at = "set_v"]
        ELSE Exit(w1, Return(PyInt(0)))

\* main from the writes of the set-points to the call of switch_main_mode(0):
\* an error of a single_write, of polling_loop or of the wait for the current
\* to drop is not caught
MainRun(w, x) ==
    CASE w.at = "set_v" ->
            LET r == WriteResult(DP_SET_VOLTAGE, PyFloat(SET_VOLTAGE), PyInt(EB_TYPE_DOUBLE), x) IN
            IF r.kind = "raise" THEN Exit(w, r) ELSE [w EXCEPT !.at = "set_i"]
      [] w.at = "set_i" ->
            LET r == WriteResult(DP_SET_CURRENT, PyFloat(SET_CURRENT), PyInt(EB_TYPE_DOUBLE), x) IN
            IF r.kind = "raise" THEN Exit(w, r) ELSE [w EXCEPT !.at = "measure"]
      [] w.at = "measure" ->
            IF x.kind = "raise" THEN Exit(w, x) ELSE [w EXCEPT !.at = "stop_i"]
      [] w.at = "stop_i" ->
            LET r == WriteResult(DP_SET_CURRENT, PyFloat(STOP_CURRENT), PyInt(EB_TYPE_DOUBLE), x) IN
            IF r.kind = "raise" THEN Exit(w, r) ELSE [w EXCEPT !.at = "drop"]
      [] w.at = "drop" ->
            IF x.kind = "raise" THEN Exit(w, x) ELSE StartSwitch(w, 0)

MainStep(w, x) ==
    IF w.at \in {"bus", "op", "fuse", "enable", "reread"} THEN MainChecks(w, x)
    ELSE IF w.at = "switch" THEN MainSwitch(w, x)
    ELSE MainRun(w, x)

\* task t goes on with the locals w
WorkerGoes(t, w) ==
    LET ended == (w.op = "main" /\ w.at = "exit")
                 \/ (w.op = "switch_main_mode" /\ w.at = "ret")
    IN  /\ call' = [call EXCEPT ![t] = w]
        /\ pc' = [pc EXCEPT ![t] = IF ended THEN "done" ELSE "await"]
        /\ outcome' = [outcome EXCEPT ![t] =
                          IF ~ended THEN Running
                          ELSE IF w.op = "main" THEN w.out
                          ELSE Return(PyBool(w.result))]
        /\ UNCHANGED << transaction_id, tx_rx_lock, frame, xout, sends, recvs,
                        timeouts, refusals, nbuilt, last_packet, response, peer >>

(***************************************************************************)
(* A second Connection.  Connection "A" is the Client of the variables     *)
(* transaction_id and tx_rx_lock, Connection "B" the Client of peer; task  *)
(* "b" makes its calls on Connection "B".                                  *)
(***************************************************************************)
\* attributes kept on the class: every Connection uses those of "A"
InstanceOfClass(conn) == "A"

\* the object that holds self.transaction_id and self.tx_rx_lock of a
\* Connection: __init__ sets them on the instance
Instance(conn) == conn

\* c = Client(): task "b" goes on with a new Client
new_client ==
    /\ pc["b"] = "idle"
    /\ peer.nbuilt > 0
    /\ peer' = NewPeer(peer.ncalls)
    /\ UNCHANGED << transaction_id, tx_rx_lock, pc, call, frame, xout, outcome,
                    sends, recvs, timeouts, refusals, ncalls, nbuilt, last_packet, response >>

\* task t runs call c on Connection "B" from its start, lk being that
\* Connection's gate as t holds it
PeerBegin(t, c, lk) ==
    LET e == Enter(c, peer.transaction_id) IN
    /\ peer' = [peer EXCEPT
                  !.transaction_id = e.tid,
                  !.tx_rx_lock = IF UsesGate(c.op) /\ e.pc = "done"
                                 THEN Released(lk) ELSE lk,
                  !.nbuilt = @ + e.built,
                  !.ncalls = @ + 1]
    /\ pc' = [pc EXCEPT ![t] = e.pc]
    /\ call' = [call EXCEPT ![t] = c]
    /\ frame' = [frame EXCEPT ![t] = e.f]
    /\ xout' = [xout EXCEPT ![t] = e.xout]
    /\ outcome' = [outcome EXCEPT ![t] = e.out]
    /\ sends' = [sends EXCEPT ![t] = e.sent]
    /\ recvs' = [recvs EXCEPT ![t] = 0]
    /\ timeouts' = [timeouts EXCEPT ![t] = 0]
    /\ refusals' = [refusals EXCEPT ![t] = 0]
    /\ UNCHANGED << transaction_id, tx_rx_lock, ncalls, nbuilt, last_packet, response >>

\* task t calls c on Connection "B"; the only task of that Connection finds
\* its gate free
PeerCall(t, c) ==
    IF Instance("B") = "A" THEN Call(t, c)
    ELSE /\ pc[t] = "idle"
         /\ peer.ncalls < MaxCalls
         /\ UsesGate(c.op) => LockFree(peer.tx_rx_lock)
         /\ PeerBegin(t, c, IF UsesGate(c.op) THEN Acquired(peer.tx_rx_lock)
                                              ELSE peer.tx_rx_lock)

\* the receive wait of task t on Connection "B" ends with r
PeerReceive(t, r) ==
    IF Instance("B") = "A" THEN Receive(t, r)
    ELSE /\ pc[t] = "rx"
         /\ LET s == Resume(call[t], frame[t], r, peer.transaction_id) IN
            /\ pc' = [pc EXCEPT ![t] = s.pc]
            /\ frame' = [frame EXCEPT ![t] = s.f]
            /\ xout' = [xout EXCEPT ![t] = s.xout]
            /\ outcome' = [outcome EXCEPT ![t] = s.out]
            /\ sends' = [sends EXCEPT ![t] = @ + s.sent]
            /\ peer' = [peer EXCEPT
                          !.tx_rx_lock = IF UsesGate(call[t].op) /\ s.pc = "done"
                                         THEN Released(@) ELSE @]
         /\ recvs' = [recvs EXCEPT ![t] = @ + 1]
         /\ timeouts' = [timeouts EXCEPT ![t] = IF r.rx = "timeout" THEN @ + 1 ELSE @]
         /\ refusals' = [refusals EXCEPT ![t] = IF r.rx = "refused" THEN @ + 1 ELSE @]
         /\ UNCHANGED << transaction_id, tx_rx_lock, call, ncalls, nbuilt, last_packet,
                         response >>

(***************************************************************************)
(* The bridge: the handler of a command line `r <hex id>`.  A reply is a   *)
(* record: [line |-> "READ", id, value, result_string],                    *)
(* [line |-> "FAILED", id] or [line |-> "ERROR", exc].                     *)
(***************************************************************************)
\* the reply to `r <dp>` built from what multi_read([dp]) handed back; the
\* handler catches every Exception and replies with its text
HandleRead(dp, out) ==
    IF out.kind = "raise" THEN [line |-> "ERROR", exc |-> out.exc]
    ELSE IF out.value.py = "None" THEN [line |-> "FAILED", id |-> dp]
    ELSE IF DOMAIN out.value.items = {} \/ dp \notin DOMAIN out.value.items
         THEN [line |-> "FAILED", id |-> dp]
    ELSE LET r == out.value.items[dp] IN
         IF r.py = "None" THEN [line |-> "ERROR", exc |-> "TypeError"]
         ELSE IF "value" \notin DOMAIN r THEN [line |-> "ERROR", exc |-> "KeyError"]
         ELSE [line |-> "READ", id |-> dp, value |-> r.value,
               result_string |-> r.result_string]

\* the bridge builds its reply once the multi_read of its command has ended
handle_read(t) ==
    /\ pc[t] = "done"
    /\ call[t].op = "multi_read"
    /\ Len(call[t].id_codes) = 1
    /\ response[t] = None
    /\ response' = [response EXCEPT ![t] = HandleRead(call[t].id_codes[1], outcome[t])]
    /\ UNCHANGED << transaction_id, tx_rx_lock, pc, call, frame, xout, outcome,
                    sends, recvs, timeouts, refusals, ncalls, nbuilt, last_packet, peer >>

\* the bridge writes the reply to its peer and reads the next command
write_response(t) ==
    /\ response[t] # None
    /\ Finish(t)

(***************************************************************************)
(* Inputs: the calls the tasks make and the datagrams the network hands    *)
(* to a receive wait.                                                      *)
(***************************************************************************)
\* ids on both sides of both ends of [0, 0xFFFF]
IdValues == {-1, 0, 1, UINT16_MAX, UINT16_MAX + 1}

RECURSIVE SeqsUpTo(_, _)
SeqsUpTo(S, n) ==
    IF n = 0 THEN {<< >>}
    ELSE LET shorter == SeqsUpTo(S, n - 1) IN
         shorter \cup {Append(q, x) : q \in shorter, x \in S}

\* a datagram of at least a header
Datagram(version, tid, type, payload) ==
    [hdr |-> PackH(version) \o PackH(tid) \o PackH(type) \o PackH(PayloadLen(payload)),
     payload |-> payload]

\* datagrams shorter than a header
ShortDatagrams == {[hdr |-> << >>, payload |-> << >>],
                   [hdr |-> << 0, 0, 0, 1, 32 >>, payload |-> << >>]}

Datagrams(versions, tids, types, payloads) ==
    {Datagram(v, i, ty, p) : v \in versions, i \in tids, ty \in types, p \in payloads}

RxOutcomes(raws) == {RxTimeout, RxRefused} \cup {RxDatagram(d) : d \in raws}

\* the transaction ids a behaviour can have assigned, and the initial 0
TidsInUse == 0..MaxCalls

\* the current transaction id and the ids next to it
NearTids(tid) == {tid, NextTid(tid), IF tid = 0 THEN UINT16_MAX ELSE tid - 1}

\* response payloads: the entries of a read or write response, well formed or not
OkPayload == << MpInt(0), MpInt(EB_OK), MpInt(42) >>
Payloads ==
    { << >>,
      OkPayload,
      << MpInt(0), MpInt(EB_OK), MpInt(42), MpInt(1), MpInt(EB_ERR_NOT_FOUND) >>,
      << MpInt(0), MpInt(EB_OK), MpArray(<< MpInt(1), MpInt(2) >>) >>,
      << MpInt(0), MpInt(EB_OK) >>,
      << MpInt(0) >>,
      << MpInt(0), MpInt(EB_ERR_READ_ONLY) >>,
      << MpInt(1), MpInt(EB_OK) >>,
      << MpInt(0), MpInt(2) >>,
      << MpInt(0), MpInt(EB_ERR_TIMEOUT) >>,
      << MpStr("x"), MpInt(EB_OK) >>,
      << MpInt(UINT16_MAX + 1), MpInt(EB_OK) >> }

ResponseTypes == {EB_MT_READ_DATA_RSP, EB_MT_WRITE_DATA_RSP, EB_MT_CLIENTS_RSP}

\* message types: the responses, the server's timeout, and 3, which has no member
RxTypes == {EB_MT_TIMEOUT, EB_MT_PING_RSP, EB_MT_READ_DATA_RSP,
            EB_MT_WRITE_DATA_RSP, EB_MT_CLIENTS_RSP, 3}

(***************************************************************************)
(* Spec: two tasks call the Client API on one Connection.                  *)
(***************************************************************************)
SpecRx ==
    RxOutcomes(Datagrams({0}, TidsInUse,
                         {EB_MT_READ_DATA_RSP, EB_MT_WRITE_DATA_RSP, EB_MT_CLIENTS_RSP},
                         {OkPayload}))

Next ==
    \E t \in Tasks :
        \/ multi_read(t, {<< 0 >>, << 0, UINT16_MAX + 1 >>})
        \/ single_write(t, {0}, {PyInt(3)}, {None})
        \/ get_connected_clients(t)
        \/ LockGranted(t)
        \/ \E r \in SpecRx : Receive(t, r)
        \/ Finish(t)

Spec == Init /\ [][Next]_vars

(***************************************************************************)
(* SpecApi: one task calls the Client API, over every input of the model.  *)
(***************************************************************************)
WriteValues == {PyInt(3), PyFloat(3), PyList(<< PyInt(1), PyInt(2) >>)}
WriteTypes == {None, PyInt(EB_TYPE_FLOAT), PyInt(EB_TYPE_DOUBLE), PyInt(EB_TYPE_UINT32)}

\* every kind of header without a payload, and every payload under a header
\* that can be accepted
ApiRx ==
    RxOutcomes(ShortDatagrams
               \cup Datagrams({0, 1}, NearTids(transaction_id), RxTypes, {<< >>})
               \cup Datagrams({0}, {transaction_id}, ResponseTypes, Payloads))

NextApi ==
    \/ multi_read("a", SeqsUpTo(IdValues, MaxIds))
    \/ single_write("a", IdValues, WriteValues, WriteTypes)
    \/ get_connected_clients("a")
    \/ \E r \in ApiRx : Receive("a", r)
    \/ Finish("a")

SpecApi == Init /\ [][NextApi]_vars

(***************************************************************************)
(* SpecCoord: one task calls the coordinator with every attempt budget.    *)
(***************************************************************************)
CoordRx ==
    RxOutcomes(ShortDatagrams
               \cup Datagrams({0, 1}, NearTids(transaction_id), RxTypes, {<< >>}))

NextCoord ==
    \/ tx_rx("a", 0..MaxTries)
    \/ \E r \in CoordRx : Receive("a", r)
    \/ Finish("a")

SpecCoord == Init /\ [][NextCoord]_vars

(***************************************************************************)
(* SpecCodec: packets of every message type are built and parsed back,     *)
(* with payloads up to the 0xFFFF bytes the length field can hold.         *)
(***************************************************************************)
CodecPayloads ==
    Payloads \cup { << MpBin(255) >>, << MpBin(256) >>,
                    << MpInt(0), MpBin(UINT16_MAX - 4) >> }

NextCodec ==
    \/ create_parse("a", EbPacketType, CodecPayloads)
    \/ Finish("a")

SpecCodec == Init /\ [][NextCodec]_vars

(***************************************************************************)
(* SpecTwo: two Connections, as in handle_connection: task "a" reads on    *)
(* the shared Client, task "b" writes doubles on Clients of its own.       *)
(***************************************************************************)
\* the outcomes of a receive wait on a Connection whose counter is tid
TwoRx(tid) ==
    RxOutcomes(Datagrams({0}, {tid, NextTid(tid)},
                         {EB_MT_READ_DATA_RSP, EB_MT_WRITE_DATA_RSP}, {OkPayload}))

NextTwo ==
    \/ multi_read("a", {<< 0 >>, << UINT16_MAX + 1 >>})
    \/ \E r \in TwoRx(transaction_id) : Receive("a", r)
    \/ Finish("a")
    \/ new_client
    \/ \E c \in SingleWriteCalls({0, UINT16_MAX + 1}, {PyList(<< PyFloat(1) >>)},
                                 {PyInt(EB_TYPE_DOUBLE)}) : PeerCall("b", c)
    \/ \E r \in TwoRx(peer.transaction_id) : PeerReceive("b", r)
    \/ Finish("b")

SpecTwo == Init /\ [][NextTwo]_vars

(***************************************************************************)
(* SpecBridge: one peer of the bridge sends `r <hex id>` commands.         *)
(***************************************************************************)
BridgeRx ==
    RxOutcomes(Datagrams({0}, {transaction_id}, {EB_MT_READ_DATA_RSP}, Payloads))

NextBridge ==
    \/ multi_read("a", {<< id >> : id \in IdValues})
    \/ \E r \in BridgeRx : Receive("a", r)
    \/ handle_read("a")
    \/ write_response("a")

SpecBridge == Init /\ [][NextBridge]_vars

(***************************************************************************)
(* SpecGate: two tasks call multi_read and single_write on one Connection, *)
(* with responses that are accepted, rejected, or make the decoding raise. *)
(* Every receive wait ends (asyncio.wait_for with its timeout), and the    *)
(* first waiter of a released gate is woken and runs.                      *)
(***************************************************************************)
GateRx ==
    {RxTimeout}
    \cup {RxDatagram(d) : d \in Datagrams({0}, {transaction_id},
                                          {EB_MT_READ_DATA_RSP, EB_MT_WRITE_DATA_RSP},
                                          {OkPayload, << MpInt(0) >>})}

NextGate ==
    \E t \in Tasks :
        \/ multi_read(t, {<< 0 >>, << UINT16_MAX + 1 >>})
        \/ single_write(t, {0}, {PyInt(3)}, {None})
        \/ LockGranted(t)
        \/ \E r \in GateRx : Receive(t, r)
        \/ Finish(t)

SpecGate ==
    /\ Init /\ [][NextGate]_vars
    /\ \A t \in Tasks : /\ WF_vars(LockGranted(t))
                        /\ WF_vars(\E r \in GateRx : Receive(t, r))

(***************************************************************************)
(* SpecWrite: one task writes data point 0, and the server answers with    *)
(* write responses of no pair, one pair or two pairs.                      *)
(***************************************************************************)
WritePayloads ==
    { << >>,
      << MpInt(0), MpInt(EB_OK) >>,
      << MpInt(0), MpInt(EB_ERR_READ_ONLY) >>,
      << MpInt(0), MpInt(EB_OK), MpInt(0), MpInt(EB_ERR_READ_ONLY) >>,
      << MpInt(0), MpInt(EB_OK), MpInt(1), MpInt(EB_ERR_READ_ONLY) >>,
      << MpInt(1), MpInt(EB_OK) >> }

WriteRx ==
    RxOutcomes(Datagrams({0}, {transaction_id}, {EB_MT_WRITE_DATA_RSP}, WritePayloads))

NextWrite ==
    \/ single_write("a", {0}, WriteValues, {None})
    \/ \E r \in WriteRx : Receive("a", r)
    \/ Finish("a")

SpecWrite == Init /\ [][NextWrite]_vars

(***************************************************************************)
(* SpecLen: one task reads, and the read responses declare a payload       *)
(* length in their header that is the length of their payload, or less,    *)
(* or more.  The payload of two entries always comes under a header that   *)
(* declares less than its 5 bytes.                                         *)
(***************************************************************************)
\* a datagram whose header declares `declared` bytes of payload
DatagramDeclaring(version, tid, type, declared, payload) ==
    [hdr |-> PackH(version) \o PackH(tid) \o PackH(type) \o PackH(declared),
     payload |-> payload]

TwoEntries == << MpInt(0), MpInt(EB_OK), MpInt(42), MpInt(1), MpInt(EB_ERR_NOT_FOUND) >>

LenRx ==
    {RxTimeout, RxRefused}
    \cup {RxDatagram(DatagramDeclaring(0, transaction_id, EB_MT_READ_DATA_RSP, d, OkPayload)) :
            d \in {0, 3, 5}}
    \cup {RxDatagram(DatagramDeclaring(0, transaction_id, EB_MT_READ_DATA_RSP, d, TwoEntries)) :
            d \in {0, 3}}

NextLen ==
    \/ multi_read("a", {<< 0 >>, << 0, 1 >>, << 1 >>, << UINT16_MAX + 1 >>})
    \/ \E r \in LenRx : Receive("a", r)
    \/ Finish("a")

SpecLen == Init /\ [][NextLen]_vars

(***************************************************************************)
(* SpecBadId: one task reads, and the read responses have, after none, one *)
(* or two entries, an id that is a string, a float, negative or above      *)
(* 0xFFFF, alone or followed by a result code and a value.                 *)
(***************************************************************************)
EntriesBefore ==
    { << >>,
      OkPayload,
      << MpInt(0), MpInt(EB_ERR_NOT_FOUND) >>,
      << MpInt(0), MpInt(EB_OK), MpInt(42), MpInt(1), MpInt(EB_ERR_NOT_FOUND) >> }

BadIds == {MpStr("x"), MpFloat64(1), MpInt(-1), MpInt(UINT16_MAX + 1)}

BadIdPayloads ==
    {before \o << bad >> \o after :
        before \in EntriesBefore, bad \in BadIds,
        after \in {<< >>, << MpInt(EB_OK), MpInt(7) >>}}

BadIdRx ==
    {RxTimeout}
    \cup {RxDatagram(d) : d \in Datagrams({0}, {transaction_id}, {EB_MT_READ_DATA_RSP},
                                          BadIdPayloads \cup EntriesBefore)}

NextBadId ==
    \/ multi_read("a", {<< 0 >>, << 0, 1 >>})
    \/ \E r \in BadIdRx : Receive("a", r)
    \/ Finish("a")

SpecBadId == Init /\ [][NextBadId]_vars

(***************************************************************************)
(* SpecConnect: one task calls connect_to_device of either module.         *)
(***************************************************************************)
ConnectRx ==
    RxOutcomes(Datagrams({0}, {transaction_id}, {EB_MT_CLIENTS_RSP},
                         {<< >>, << MpArray(<< >>) >>}))

NextConnect ==
    \/ connect_to_device("a", {"core", "top"})
    \/ \E r \in ConnectRx : DeviceReceive("a", r)
    \/ Finish("a")

SpecConnect == Init /\ [][NextConnect]_vars

(***************************************************************************)
(* SpecWorker: one task runs main of workerA.py.  SpecSwitch: one task     *)
(* calls switch_main_mode, of workerA.py or of services/worker_a_client.py.*)
(***************************************************************************)
\* what _tx_rx hands back: for an exhausted exchange, and for an accepted
\* response with a payload
Exhausted == Return(EbResult(EB_ERR_TIMEOUT))
Accepted(type, payload) == ParsePacket(Datagram(0, 0, type, payload))

\* the ends of a read of dp_id: no response, a response that cannot be
\* parsed, one without an entry, one with a failed entry, one with a value
ReadExchanges(dp_id, values) ==
    {Exhausted, Raise("ValueError")}
    \cup {Accepted(EB_MT_READ_DATA_RSP, p) :
            p \in {<< >>, << MpInt(dp_id), MpInt(EB_ERR_NOT_FOUND) >>}
                  \cup {<< MpInt(dp_id), MpInt(EB_OK), v >> : v \in values}}

\* the ends of a write of dp_id
WriteExchanges(dp_id) ==
    {Exhausted, Raise("ValueError")}
    \cup {Accepted(EB_MT_WRITE_DATA_RSP, p) :
            p \in {<< MpInt(dp_id), MpInt(EB_OK) >>,
                   << MpInt(dp_id), MpInt(EB_ERR_READ_ONLY) >>}}

BusValues == {MpFloat64(0), MpInt(10), MpFloat64(11), MpStr("x")}
ModeValues == {MpInt(0), MpInt(1), MpInt(MAX_VALID_OP_MODE + 1), MpFloat64(MAX_VALID_OP_MODE + 1)}
FuseValues ==
    {MpArray(<< MpInt(1), MpInt(1) >>), MpArray(<< MpInt(1), MpInt(0) >>),
     MpArray(<< >>), MpInt(1)}

\* the ends of the call switch_main_mode waits in
SwitchExchanges(sw, mode_values) ==
    IF sw.at = "write" THEN WriteExchanges(DP_REQ_MODE)
    ELSE ReadExchanges(DP_OP_MODE, mode_values)

\* the ends of the call main waits in
MainExchanges(w, bus_values, mode_values, fuse_values) ==
    CASE w.at = "bus" -> ReadExchanges(DP_BUS_VOLTAGE, bus_values)
      [] w.at = "op" -> ReadExchanges(DP_OP_MODE, mode_values)
      [] w.at \in {"fuse", "reread"} -> ReadExchanges(DP_PM_FUSE, fuse_values)
      [] w.at = "enable" -> WriteExchanges(DP_PM_FUSE)
      [] w.at = "switch" -> SwitchExchanges(w.sw, mode_values)
      [] w.at = "set_v" -> WriteExchanges(DP_SET_VOLTAGE)
      [] w.at \in {"set_i", "stop_i"} -> WriteExchanges(DP_SET_CURRENT)
      [] w.at = "measure" -> {Return(None), Raise("OSError")}
      [] w.at = "drop" -> {Return(None), Raise("TypeError")}

\* main() starts: connect() hands back a client or None
main(t) ==
    \E client \in BOOLEAN :
        /\ pc[t] = "idle"
        /\ ncalls < MaxCalls
        /\ ncalls' = ncalls + 1
        /\ WorkerGoes(t, IF client THEN NewMain ELSE Exit(NewMain, Return(PyInt(1))))

\* the call main waits in ends
main_step(t, bus_values, mode_values, fuse_values) ==
    /\ pc[t] = "await"
    /\ call[t].op = "main"
    /\ \E x \in MainExchanges(call[t], bus_values, mode_values, fuse_values) :
          WorkerGoes(t, MainStep(call[t], x))
    /\ UNCHANGED ncalls

\* switch_main_mode(client, target_mode, ...) of a module starts: workerA.py
\* takes the poll interval and the highest valid mode from its constants
switch_main_mode(t, modules, timeout_values, poll_intervals, max_valid_op_modes) ==
    \E module \in modules, target_mode \in {0, 1}, timeout \in timeout_values,
       poll_interval \in poll_intervals, max_valid_op_mode \in max_valid_op_modes :
        /\ pc[t] = "idle"
        /\ ncalls < MaxCalls
        /\ ncalls' = ncalls + 1
        /\ WorkerGoes(t, IF module = "workerA"
                         THEN NewSwitch(target_mode, timeout, MODE_POLL_INTERVAL,
                                        MAX_VALID_OP_MODE)
                         ELSE NewSwitch(target_mode, timeout, poll_interval,
                                        max_valid_op_mode))

\* the call switch_main_mode waits in ends
switch_step(t, mode_values) ==
    /\ pc[t] = "await"
    /\ call[t].op = "switch_main_mode"
    /\ \E x \in SwitchExchanges(call[t], mode_values) :
          WorkerGoes(t, SwitchStep(call[t], x))
    /\ UNCHANGED ncalls

NextWorker ==
    \/ main("a")
    \/ main_step("a", BusValues, ModeValues, FuseValues)
    \/ Finish("a")

SpecWorker == Init /\ [][NextWorker]_vars

\* the timeouts and poll intervals of the calls of services/worker_a_client.py
SwitchTimeouts == {0, 3, 4}
PollIntervals == {1, 2}

NextSwitch ==
    \/ switch_main_mode("a", {"workerA"}, {0, MAIN_MODE_TIMEOUT},
                        {MODE_POLL_INTERVAL}, {MAX_VALID_OP_MODE})
    \/ switch_main_mode("a", {"worker_a_client"}, SwitchTimeouts, PollIntervals,
                        {1, MAX_VALID_OP_MODE})
    \/ switch_step("a", ModeValues)
    \/ Finish("a")

SpecSwitch == Init /\ [][NextSwitch]_vars

\* the sleep and the read switch_main_mode waits in come to an end: the sleep
\* is finite, and the exchange of the read ends after its last receive wait
SpecSwitchLive == SpecSwitch /\ WF_vars(switch_step("a", ModeValues))

(***************************************************************************)
(* SpecTid: requests are built one after the other, past the wrap of the   *)
(* transaction counter.                                                    *)
(***************************************************************************)
SpecTid == Init /\ [][BuildRequest]_vars

(***************************************************************************)
(* Properties.                                                             *)
(***************************************************************************)
\* task t is in a multi_read or a single_write
GatedCall(t) == call[t].op \in {"multi_read", "single_write"}

\* task t sends a datagram in this step
Transmits(t) == sends'[t] > sends[t]

\* the transaction id in the header of the request of task t
RequestTid(t) == UnpackH(frame[t].tx_packet.hdr, 3)

FailureResults ==
    {EbResult(EB_ERR_TIMEOUT), EbResult(EB_ERR_CONNECTION), EbResult(EB_ERR_MSG_FORMAT)}

\* C1: while a multi_read or single_write of one task is in its exchange (its
\* request built, its exchange not yet accepted or exhausted), no step of
\* another task's multi_read or single_write sends a datagram.
C1_NoInterleavedTransmission ==
    [][\A t \in Tasks : \A u \in Tasks \ {t} :
          (Transmits(t) /\ call'[t].op \in {"multi_read", "single_write"})
              => ~(pc[u] = "rx" /\ GatedCall(u))]_vars

\* C1 witness: a gated call has sent and waits for its response while the other
\* task's gated call waits for the gate.
C1_Witness ==
    /\ pc["a"] = "rx" /\ call["a"].op = "multi_read" /\ sends["a"] >= 1
    /\ pc["b"] = "wait_lock" /\ call["b"].op = "single_write"

\* C2: at most one exchange is in flight on the Connection at any moment,
\* whatever calls of the Client API the tasks make.
C2_OneExchangeInFlight == Cardinality({t \in Tasks : pc[t] = "rx"}) <= 1

\* C3: a packet an exchange accepted has version 0 and the transaction id of
\* the header of that exchange's request.
C3_AcceptedMatchesRequest ==
    \A t \in Tasks :
        (pc[t] = "done" /\ xout[t].kind = "return" /\ xout[t].value.py = "dict")
            => /\ xout[t].value.version = 0
               /\ xout[t].value.transaction_id = RequestTid(t)

\* C4: an exchange that has ended, with every one of its receive waits (at
\* least one) ended by a local timeout, has sent its request exactly n_tries
\* times and handed back EB_ERR_TIMEOUT.
C4_AllTimeoutsExhaust ==
    \A t \in Tasks :
        (pc[t] = "done" /\ recvs[t] >= 1 /\ timeouts[t] = recvs[t])
            => /\ sends[t] = frame[t].n_tries
               /\ xout[t] = Return(EbResult(EB_ERR_TIMEOUT))

\* C4 witness: an exchange with the largest budget ended after that many timeouts.
C4_Witness ==
    /\ pc["a"] = "done" /\ frame["a"].n_tries = MaxTries
    /\ timeouts["a"] = MaxTries /\ recvs["a"] = MaxTries

\* a datagram of at least a header with version 0 and a transaction id that is
\* not the current one
Stale(raw) ==
    /\ RawLen(raw) >= 8
    /\ UnpackH(raw.hdr, 1) = 0
    /\ UnpackH(raw.hdr, 3) # transaction_id

\* C5: the receive of a version-0 datagram with a foreign transaction id
\* consumes one attempt (the exchange goes on with its next attempt or ends
\* exhausted), records EB_ERR_MSG_FORMAT, and sends nothing before the next
\* receive wait.
C5_StaleConsumesAttempt ==
    [][\A raw \in ShortDatagrams
                  \cup Datagrams({0, 1}, NearTids(transaction_id), RxTypes, {<< >>}) :
          (Stale(raw) /\ Receive("a", RxDatagram(raw)))
              => /\ frame'["a"].result = EbResult(EB_ERR_MSG_FORMAT)
                 /\ sends'["a"] = sends["a"]
                 /\ \/ pc'["a"] = "rx" /\ frame'["a"].it = frame["a"].it + 1
                    \/ /\ pc'["a"] = "done" /\ frame["a"].it = frame["a"].n_tries
                       /\ xout'["a"] = Return(EbResult(EB_ERR_MSG_FORMAT))]_vars

\* C6: an exchange that ended without an accepted packet handed back the
\* outcome its last attempt recorded, one of EB_ERR_TIMEOUT, EB_ERR_CONNECTION
\* and EB_ERR_MSG_FORMAT, whatever its attempt budget.
C6_FailureIsLastOutcome ==
    \A t \in Tasks :
        (pc[t] = "done" /\ call[t].op = "_tx_rx" /\ xout[t].kind = "return"
            /\ xout[t].value.py # "dict")
            => /\ xout[t].value \in FailureResults
               /\ xout[t].value = frame[t].result

\* C7: an exchange makes at most n_tries receive waits, and when it has ended
\* _tx_rx has returned an accepted packet or a failure result.
C7_ExchangeReturns ==
    \A t \in Tasks :
        /\ pc[t] \in {"rx", "done"} => recvs[t] <= frame[t].n_tries
        /\ (pc[t] = "done" /\ xout[t].kind # "running")
              => /\ xout[t].kind = "return"
                 /\ xout[t].value.py = "dict" \/ xout[t].value \in FailureResults

\* C8: the k-th request built on the Connection carries transaction id
\* k mod 0x10000 in its header, the counter holds that id, and the counter
\* stays within [0, 0xFFFF].
C8_TransactionIdSequence ==
    /\ transaction_id \in 0..UINT16_MAX
    /\ transaction_id = nbuilt % (UINT16_MAX + 1)
    /\ nbuilt >= 1 => UnpackH(last_packet.hdr, 3) = nbuilt % (UINT16_MAX + 1)

\* C8 witness: the request after the one with id 0xFFFF has been built.
C8_Witness == nbuilt = UINT16_MAX + 1 /\ transaction_id = 0

\* C9: no call of the Client API ends by raising an error.
C9_NoErrorRaised == \A t \in Tasks : outcome[t].kind # "raise"

\* C10: a multi_read whose list holds an id below 0 or above 0xFFFF, at any
\* position, has returned None and has sent no datagram.
C10_InvalidIdReadSendsNothing ==
    \A t \in Tasks :
        (/\ pc[t] \in {"rx", "done"}
         /\ call[t].op = "multi_read"
         /\ \E k \in 1..Len(call[t].id_codes) :
                call[t].id_codes[k] < 0 \/ call[t].id_codes[k] > UINT16_MAX)
            => /\ pc[t] = "done"
               /\ outcome[t] = Return(None)
               /\ sends[t] = 0
               /\ xout[t] = Running

\* C10 witness: a multi_read has ended whose invalid id is not the first of its list.
C10_Witness ==
    /\ pc["a"] = "done"
    /\ call["a"] = [op |-> "multi_read", id_codes |-> << 0, UINT16_MAX + 1 >>]

\* C11: a single_write whose id is below 0 or above 0xFFFF has returned
\* EB_ERR_WRONG_PARAMETER and has sent no datagram, whatever its value and
\* its declared type.
C11_InvalidIdWriteSendsNothing ==
    \A t \in Tasks :
        (/\ pc[t] \in {"rx", "done"}
         /\ call[t].op = "single_write"
         /\ (call[t].id_code < 0 \/ call[t].id_code > UINT16_MAX))
            => /\ pc[t] = "done"
               /\ outcome[t] = Return(EbResult(EB_ERR_WRONG_PARAMETER))
               /\ sends[t] = 0
               /\ xout[t] = Running

\* C11 witness: a single_write of a list declared as double has ended whose id
\* is 0x10000.
C11_Witness ==
    /\ pc["a"] = "done"
    /\ call["a"] = [op |-> "single_write", id_code |-> UINT16_MAX + 1,
                    value |-> PyList(<< PyInt(1), PyInt(2) >>),
                    eb_type |-> PyInt(EB_TYPE_DOUBLE)]

\* C12: a multi_read or single_write whose exchange ended exhausted, the
\* coordinator handing back EB_ERR_TIMEOUT, EB_ERR_CONNECTION or
\* EB_ERR_MSG_FORMAT after its last attempt, has returned None.
C12_ExhaustedCallReturnsNone ==
    \A t \in Tasks :
        (/\ pc[t] = "done"
         /\ call[t].op \in {"multi_read", "single_write"}
         /\ xout[t].kind = "return"
         /\ xout[t].value \in FailureResults)
            => /\ outcome[t] = Return(None)
               /\ frame[t].it = frame[t].n_tries
               /\ recvs[t] = frame[t].n_tries

\* C12 witness: a single_write has ended whose exchange was exhausted with
\* EB_ERR_CONNECTION after a timeout in an earlier attempt.
C12_Witness ==
    /\ pc["a"] = "done" /\ call["a"].op = "single_write"
    /\ xout["a"] = Return(EbResult(EB_ERR_CONNECTION))
    /\ timeouts["a"] >= 1

\* a datagram of at least a header with version 0, the current transaction
\* id and the response type the exchange of task t expects
Matching(raw, t) ==
    /\ RawLen(raw) >= 8
    /\ UnpackH(raw.hdr, 1) = 0
    /\ UnpackH(raw.hdr, 3) = transaction_id
    /\ UnpackH(raw.hdr, 5) = frame[t].response_type

\* a write response payload of one entry: the written id and a result code
WriteEntry(payload, id_code) ==
    /\ Len(payload) = 2
    /\ payload[1] = MpInt(id_code)
    /\ payload[2].mp = "int" /\ payload[2].v \in EbResultValues

\* C13: the receive of a datagram with version 0, the current transaction id
\* and the expected response type ends the exchange in that step, whatever its
\* payload: the coordinator hands the packet back, sends nothing and waits
\* for nothing more; and a single_write whose response carries its id and a
\* result code returns that result code.
C13_MatchingResponseAcceptedAtOnce ==
    [][pc["a"] = "rx" =>
        \A raw \in Datagrams({0}, {transaction_id}, {frame["a"].response_type},
                             Payloads) :
          (Matching(raw, "a") /\ Receive("a", RxDatagram(raw)))
              => /\ pc'["a"] = "done"
                 /\ sends'["a"] = sends["a"]
                 /\ xout'["a"] = ParsePacket(raw)
                 /\ (call["a"].op = "single_write"
                        /\ WriteEntry(raw.payload, call["a"].id_code))
                      => outcome'["a"] = Return(EbResult(raw.payload[2].v))]_vars

\* C13 witness: a single_write has ended with EB_ERR_READ_ONLY, the code of
\* the response its first attempt received.
C13_Witness ==
    /\ pc["a"] = "done" /\ call["a"].op = "single_write"
    /\ recvs["a"] = 1 /\ sends["a"] = 1
    /\ xout["a"].kind = "return" /\ xout["a"].value.py = "dict"
    /\ outcome["a"] = Return(EbResult(EB_ERR_READ_ONLY))

\* the payload from object `at` on is a sequence of entries: an id within
\* [0, 0xFFFF], one of the result codes a server reports (those with a name in
\* eb_result_dict), and a value exactly after the result code EB_OK
RECURSIVE WellFormedRead(_, _)
WellFormedRead(payload, at) ==
    \/ at > Len(payload)
    \/ /\ at + 1 <= Len(payload)
       /\ payload[at].mp = "int" /\ payload[at].v \in 0..UINT16_MAX
       /\ payload[at + 1].mp = "int" /\ payload[at + 1].v \in DOMAIN eb_result_dict
       /\ IF payload[at + 1].v = EB_OK
          THEN at + 2 <= Len(payload) /\ WellFormedRead(payload, at + 3)
          ELSE WellFormedRead(payload, at + 2)

\* the positions at which the entries of a well-formed payload start
RECURSIVE EntryStarts(_, _)
EntryStarts(payload, at) ==
    IF at > Len(payload) THEN {}
    ELSE {at} \cup EntryStarts(payload, IF payload[at + 1].v = EB_OK THEN at + 3
                                                                  ELSE at + 2)

\* C14: a multi_read whose accepted response has a payload of entries
\* (id, result code, and a value exactly after EB_OK) has returned a mapping
\* in which each id of the payload (by its last entry) maps to an outcome with
\* that id, that result code, and a value, the entry's, exactly when the
\* result code is EB_OK.
C14_ReadResponseDecoded ==
    \A t \in Tasks :
        (/\ pc[t] = "done" /\ call[t].op = "multi_read"
         /\ xout[t].kind = "return" /\ xout[t].value.py = "dict"
         /\ WellFormedRead(xout[t].value.payload, 1))
            => LET payload == xout[t].value.payload
                   starts == EntryStarts(payload, 1)
               IN  /\ outcome[t].kind = "return" /\ outcome[t].value.py = "dict"
                   /\ \A at \in starts :
                        (\A later \in starts :
                            later > at => payload[later].v # payload[at].v)
                        => /\ payload[at].v \in DOMAIN outcome[t].value.items
                           /\ LET o == outcome[t].value.items[payload[at].v] IN
                              /\ o.py = "dict"
                              /\ o.data_point_id = payload[at].v
                              /\ o.result_code = payload[at + 1].v
                              /\ "value" \in DOMAIN o <=> payload[at + 1].v = EB_OK
                              /\ payload[at + 1].v = EB_OK
                                    => o.value = Unpacked(payload[at + 2])

\* C14 witness: multi_read([0, 1]) has decoded [(0, OK, 42), (1, NOT_FOUND)].
C14_Witness ==
    /\ pc["a"] = "done"
    /\ call["a"] = [op |-> "multi_read", id_codes |-> << 0, 1 >>]
    /\ xout["a"].kind = "return" /\ xout["a"].value.py = "dict"
    /\ xout["a"].value.payload =
          << MpInt(0), MpInt(EB_OK), MpInt(42), MpInt(1), MpInt(EB_ERR_NOT_FOUND) >>
    /\ outcome["a"].kind = "return" /\ outcome["a"].value.py = "dict"
    /\ outcome["a"].value.items[0].value = PyInt(42)
    /\ outcome["a"].value.items[1].result_code = EB_ERR_NOT_FOUND

\* C15: the mapping a multi_read has returned has the requested ids as its
\* key set, and none of its keys maps to None.
C15_OneOutcomePerRequestedId ==
    \A t \in Tasks :
        (/\ pc[t] = "done" /\ call[t].op = "multi_read"
         /\ outcome[t].kind = "return" /\ outcome[t].value.py = "dict")
            => LET items == outcome[t].value.items IN
               /\ DOMAIN items = {call[t].id_codes[k] : k \in 1..Len(call[t].id_codes)}
               /\ \A id \in DOMAIN items : items[id].py # "None"

\* C16: when a single_write receives the response its exchange accepts and
\* the id that response carries is not the written id, the call ends in that
\* step with EB_ERR_MSG_FORMAT: it sends nothing and waits for nothing more.
C16_ForeignIdInWriteResponse ==
    [][(pc["a"] = "rx" /\ call["a"].op = "single_write") =>
        \A raw \in Datagrams({0}, {transaction_id}, {EB_MT_WRITE_DATA_RSP}, Payloads) :
          (/\ Matching(raw, "a")
           /\ raw.payload # << >>
           /\ raw.payload[1].mp = "int"
           /\ raw.payload[1].v # call["a"].id_code
           /\ Receive("a", RxDatagram(raw)))
              => /\ pc'["a"] = "done"
                 /\ sends'["a"] = sends["a"]
                 /\ xout'["a"] = ParsePacket(raw)
                 /\ outcome'["a"] = Return(EbResult(EB_ERR_MSG_FORMAT))]_vars

\* C16 witness: a single_write of id 1 has ended with EB_ERR_MSG_FORMAT on an
\* accepted response that reports EB_OK for id 0.
C16_Witness ==
    /\ pc["a"] = "done" /\ call["a"].op = "single_write" /\ call["a"].id_code = 1
    /\ xout["a"].kind = "return" /\ xout["a"].value.py = "dict"
    /\ xout["a"].value.payload = << MpInt(0), MpInt(EB_OK), MpInt(42) >>
    /\ outcome["a"] = Return(EbResult(EB_ERR_MSG_FORMAT))
    /\ sends["a"] = 1

\* the encoding of a number, or of a list of numbers, with Scalar applied to
\* the number or to every element
EncodedWith(value, Scalar(_)) ==
    IF value.py = "list"
    THEN MpArray([k \in 1..Len(value.items) |-> Scalar(value.items[k])])
    ELSE Scalar(value)

AsFloat64(x) == MpFloat64(x.v)
AsFloat32(x) == MpFloat32(x.v)
\* a Python int stays an integer and a Python float is a 64-bit float
AsOwnType(x) == IF x.py = "int" THEN MpInt(x.v) ELSE MpFloat64(x.v)

\* C17: the request a single_write has built carries the written id and, after
\* it, the value encoded as 64-bit floats (the value, or every element of a
\* list) when the declared type is EB_TYPE_DOUBLE, as 32-bit floats when it is
\* EB_TYPE_FLOAT, and in its own type when it is anything else.
C17_WriteValueEncoding ==
    \A t \in Tasks :
        (/\ pc[t] \in {"rx", "done"} /\ call[t].op = "single_write"
         /\ call[t].id_code \in 0..UINT16_MAX)
            => LET payload == frame[t].tx_packet.payload
                   value == call[t].value
                   eb_type == call[t].eb_type
               IN  /\ sends[t] >= 1
                   /\ Len(payload) = 2
                   /\ payload[1] = MpInt(call[t].id_code)
                   /\ eb_type = PyInt(EB_TYPE_DOUBLE)
                        => payload[2] = EncodedWith(value, AsFloat64)
                   /\ eb_type = PyInt(EB_TYPE_FLOAT)
                        => payload[2] = EncodedWith(value, AsFloat32)
                   /\ eb_type \notin {PyInt(EB_TYPE_DOUBLE), PyInt(EB_TYPE_FLOAT)}
                        => payload[2] = EncodedWith(value, AsOwnType)

\* C17 witness: single_write(0, [1, 2], EB_TYPE_DOUBLE) has sent a request
\* whose value is an array of two 64-bit floats.
C17_Witness ==
    /\ pc["a"] = "rx"
    /\ call["a"] = [op |-> "single_write", id_code |-> 0,
                    value |-> PyList(<< PyInt(1), PyInt(2) >>),
                    eb_type |-> PyInt(EB_TYPE_DOUBLE)]
    /\ frame["a"].tx_packet.payload[2] = MpArray(<< MpFloat64(1), MpFloat64(2) >>)
    /\ sends["a"] = 1

\* C18: for every message type of EbPacketType and every payload of at most
\* 0xFFFF bytes, _parse_packet of the bytes _create_packet made returns a
\* packet with that type, that payload, version 0 and the transaction id just
\* assigned, and the payload-length field of those bytes is len(payload).
C18_PacketRoundTrip ==
    \A t \in Tasks :
        (/\ pc[t] = "done" /\ call[t].op = "_create_packet"
         /\ call[t].type \in EbPacketType
         /\ PayloadLen(call[t].payload) <= UINT16_MAX)
            => /\ outcome[t] = Return([py |-> "dict", version |-> 0,
                                       transaction_id |-> transaction_id,
                                       type |-> call[t].type,
                                       payload |-> call[t].payload])
               /\ Len(last_packet.hdr) = 8
               /\ \A k \in 1..8 : last_packet.hdr[k] \in 0..255
               /\ UnpackH(last_packet.hdr, 7) = PayloadLen(call[t].payload)

\* C18 witness: a write request with a payload of exactly 0xFFFF bytes has
\* been built and parsed back.
C18_Witness ==
    /\ pc["a"] = "done" /\ call["a"].op = "_create_packet"
    /\ call["a"].type = EB_MT_WRITE_DATA_REQ
    /\ PayloadLen(call["a"].payload) = UINT16_MAX
    /\ outcome["a"].kind = "return"
    /\ transaction_id = 2

\* C19: the receive of a datagram shorter than 8 bytes is a format error of
\* that attempt: the coordinator records EB_ERR_MSG_FORMAT, raises nothing,
\* and goes on with its next attempt or ends exhausted with that result; and
\* _parse_packet of a datagram of 8 bytes or more returns its header fields
\* and the bytes after the header as payload.
C19_ShortPacketIsFormatError ==
    [][\A r \in CoordRx :
          (r.rx = "datagram" /\ Receive("a", r))
              => IF RawLen(r.raw) < 8
                 THEN /\ frame'["a"].result = EbResult(EB_ERR_MSG_FORMAT)
                      /\ outcome'["a"].kind # "raise"
                      /\ \/ pc'["a"] = "rx"
                         \/ /\ pc'["a"] = "done"
                            /\ frame["a"].it = frame["a"].n_tries
                            /\ xout'["a"] = Return(EbResult(EB_ERR_MSG_FORMAT))
                 ELSE ParsePacket(r.raw) =
                        Return([py |-> "dict",
                                version |-> UnpackH(r.raw.hdr, 1),
                                transaction_id |-> UnpackH(r.raw.hdr, 3),
                                type |-> UnpackH(r.raw.hdr, 5),
                                payload |-> r.raw.payload])]_vars

\* task t takes a step
TaskStep(t) ==
    \/ pc'[t] # pc[t]
    \/ frame'[t] # frame[t]
    \/ recvs'[t] # recvs[t]

\* C20: with task "a" on Connection A and task "b" on Connection B, a step
\* of one task (a call that fails validation or starts an exchange, a retry,
\* an acceptance, an exhaustion) leaves the transaction counter and the gate
\* of the other Connection unchanged, and the request a call has built
\* carries the id that the count of requests built on its own Connection
\* gives.
C20_ConnectionsShareNoState ==
    [][/\ TaskStep("a") => /\ peer'.transaction_id = peer.transaction_id
                           /\ peer'.tx_rx_lock = peer.tx_rx_lock
       /\ TaskStep("b") => /\ transaction_id' = transaction_id
                           /\ tx_rx_lock' = tx_rx_lock
       /\ transaction_id' = nbuilt' % (UINT16_MAX + 1)
       /\ peer'.transaction_id = peer'.nbuilt % (UINT16_MAX + 1)
       /\ (pc'["a"] = "rx" /\ pc["a"] = "idle")
            => UnpackH(frame'["a"].tx_packet.hdr, 3) = nbuilt' % (UINT16_MAX + 1)
       /\ (pc'["b"] = "rx" /\ pc["b"] = "idle")
            => UnpackH(frame'["b"].tx_packet.hdr, 3) = peer'.nbuilt % (UINT16_MAX + 1)
      ]_vars

\* C20 witness: both Connections are in an exchange at once, each holding its
\* own gate, Connection A in its second exchange and Connection B in its
\* first after a retry.
C20_Witness ==
    /\ pc["a"] = "rx" /\ call["a"].op = "multi_read" /\ transaction_id = 2
    /\ pc["b"] = "rx" /\ call["b"].op = "single_write" /\ peer.transaction_id = 1
    /\ tx_rx_lock.locked /\ peer.tx_rx_lock.locked
    /\ recvs["b"] >= 1

\* C21: whatever a get_connected_clients has returned is a pair of a result
\* code and a roster, also when its exchange ended exhausted.
C21_ClientsReturnsPair ==
    \A t \in Tasks :
        (/\ pc[t] = "done" /\ call[t].op = "get_connected_clients"
         /\ outcome[t].kind = "return")
            => /\ outcome[t].value.py = "tuple"
               /\ outcome[t].value.result_code.py = "EbResult"

\* C22: the budget of an exchange is the one its caller passed to _tx_rx:
\* exactly 3 for single_write and get_connected_clients, no more than 4 for
\* multi_read; and no call of the Client API has sent more datagrams than its
\* budget, so none has sent more than 4.
C22_CallerBudgets ==
    \A t \in Tasks :
        (pc[t] \in {"rx", "done"} /\ frame[t] # NoFrame)
            => /\ call[t].op \in {"single_write", "get_connected_clients"}
                    => frame[t].n_tries = 3
               /\ call[t].op = "multi_read" => frame[t].n_tries <= 4
               /\ sends[t] <= frame[t].n_tries
               /\ call[t].op \in {"multi_read", "single_write", "get_connected_clients"}
                    => sends[t] <= 4

\* C22 witness: a multi_read has ended after it sent its request as often as
\* its budget allows.
C22_Witness ==
    /\ pc["a"] = "done" /\ call["a"].op = "multi_read"
    /\ sends["a"] = frame["a"].n_tries /\ sends["a"] >= 3
    /\ outcome["a"] = Return(None)

\* C23: the reply the bridge has built for `r <id>`, when multi_read returned
\* a mapping with that id as a key, is a READ line with the id and the name
\* of the result code of the entry, whatever that result code is, and also
\* when the entry is None.
C23_BridgeReadReply ==
    \A t \in Tasks :
        (/\ response[t] # None
         /\ call[t].op = "multi_read"
         /\ outcome[t].kind = "return" /\ outcome[t].value.py = "dict"
         /\ call[t].id_codes[1] \in DOMAIN outcome[t].value.items)
            => /\ response[t].line = "READ"
               /\ response[t].id = call[t].id_codes[1]

\* task t starts an exchange in this step: its request is built and sent
StartsExchange(t) == pc[t] \in {"idle", "wait_lock"} /\ pc'[t] = "rx"

\* task t ends a receive wait in this step
EndsReceive(t) == pc[t] = "rx" /\ recvs'[t] = recvs[t] + 1

\* C24: the step that starts an exchange advances the transaction counter by
\* exactly one (modulo 0x10000), writes the new id into the request and sends
\* that request for the first time; every later step of the exchange, whether
\* it retransmits, accepts or ends exhausted, leaves the counter and the bytes
\* of the request unchanged.
C24_OneIdPerExchange ==
    [][\A t \in Tasks :
          /\ StartsExchange(t)
                => /\ transaction_id' = (transaction_id + 1) % (UINT16_MAX + 1)
                   /\ nbuilt' = nbuilt + 1
                   /\ UnpackH(frame'[t].tx_packet.hdr, 3) = transaction_id'
                   /\ sends'[t] = 1
          /\ EndsReceive(t)
                => /\ transaction_id' = transaction_id
                   /\ nbuilt' = nbuilt
                   /\ frame'[t].tx_packet = frame[t].tx_packet
                   /\ sends'[t] \in {sends[t], sends[t] + 1}]_vars

\* C24 witness: an exchange has ended exhausted after three transmissions of
\* the request with id 1, the counter still at 1.
C24_Witness ==
    /\ pc["a"] = "done" /\ sends["a"] = 3 /\ recvs["a"] = 3
    /\ xout["a"] = Return(EbResult(EB_ERR_TIMEOUT))
    /\ UnpackH(frame["a"].tx_packet.hdr, 3) = 1
    /\ transaction_id = 1 /\ nbuilt = 1

\* the step in which the receive wait of task "a" ends with r records result:
\* the exchange goes on with an attempt that sends the request again, or, its
\* budget used up, ends with that result
RecordsAndRetransmits(r, result) ==
    Receive("a", r)
        => /\ frame'["a"].result = EbResult(result)
           /\ IF frame["a"].it < frame["a"].n_tries
              THEN /\ pc'["a"] = "rx"
                   /\ frame'["a"].it = frame["a"].it + 1
                   /\ sends'["a"] = sends["a"] + 1
              ELSE /\ pc'["a"] = "done"
                   /\ sends'["a"] = sends["a"]
                   /\ xout'["a"] = Return(EbResult(result))

\* C25: a receive wait that ends in a timeout records EB_ERR_TIMEOUT and one
\* that ends in a refusal records EB_ERR_CONNECTION, and in both cases the next
\* attempt sends the request again; an exchange that has ended with every one
\* of its receive waits (at least one) refused has sent its request exactly
\* n_tries times and handed back EB_ERR_CONNECTION.
C25_TransportOutcomes ==
    [][/\ RecordsAndRetransmits(RxTimeout, EB_ERR_TIMEOUT)
       /\ RecordsAndRetransmits(RxRefused, EB_ERR_CONNECTION)
       /\ (pc'["a"] = "done" /\ recvs'["a"] >= 1 /\ refusals'["a"] = recvs'["a"])
            => /\ sends'["a"] = frame'["a"].n_tries
               /\ xout'["a"] = Return(EbResult(EB_ERR_CONNECTION))]_vars

\* C25 witness: an exchange with the largest budget has ended after that many
\* refusals.
C25_Witness ==
    /\ pc["a"] = "done" /\ frame["a"].n_tries = MaxTries
    /\ refusals["a"] = MaxTries /\ recvs["a"] = MaxTries
    /\ sends["a"] = MaxTries

\* C26: the receive of a datagram of at least a header that is not accepted
\* records EB_ERR_MSG_FORMAT when its version is not 0, EB_ERR_TIMEOUT when it
\* has version 0, the current transaction id and the type EB_MT_TIMEOUT, and
\* EB_ERR_MSG_FORMAT when it has version 0, the current transaction id and any
\* other type that is not the expected response type; in all three cases the
\* next attempt sends the request again.
C26_ProtocolOutcomes ==
    [][\A r \in CoordRx :
          (r.rx = "datagram" /\ RawLen(r.raw) >= 8)
              => LET version == UnpackH(r.raw.hdr, 1)
                     tid == UnpackH(r.raw.hdr, 3)
                     type == UnpackH(r.raw.hdr, 5)
                 IN  /\ version # 0
                          => RecordsAndRetransmits(r, EB_ERR_MSG_FORMAT)
                     /\ (version = 0 /\ tid = transaction_id /\ type = EB_MT_TIMEOUT)
                          => RecordsAndRetransmits(r, EB_ERR_TIMEOUT)
                     /\ (/\ version = 0 /\ tid = transaction_id
                         /\ type \notin {EB_MT_TIMEOUT, frame["a"].response_type})
                          => RecordsAndRetransmits(r, EB_ERR_MSG_FORMAT)]_vars

\* the outcome of a receive wait is a datagram of at least a header with
\* version 0 and a transaction id other than the current one
IdMismatch(r) == r.rx = "datagram" /\ Stale(r.raw)

\* C27: the first attempt of an exchange sends the request, and an attempt
\* after a receive wait sends it if and only if that receive wait did not end
\* with a transaction-id mismatch, whatever the attempts before did; so an
\* exchange has sent at least once and at most once per attempt made.
C27_SuppressionLastsOneAttempt ==
    [][/\ StartsExchange("a") => sends'["a"] = 1
       /\ \A r \in CoordRx :
            (Receive("a", r) /\ pc'["a"] = "rx")
                => /\ frame'["a"].it = frame["a"].it + 1
                   /\ IF IdMismatch(r) THEN sends'["a"] = sends["a"]
                                       ELSE sends'["a"] = sends["a"] + 1
       /\ pc'["a"] \in {"rx", "done"} /\ frame'["a"].it >= 1
            => /\ sends'["a"] >= 1
               /\ sends'["a"] <= frame'["a"].it]_vars

\* C27 witness: an exchange with the largest budget has ended exhausted after
\* a single transmission, every one of its receive waits having ended with a
\* datagram.
C27_Witness ==
    /\ pc["a"] = "done" /\ frame["a"].n_tries = MaxTries
    /\ recvs["a"] = MaxTries /\ timeouts["a"] = 0 /\ refusals["a"] = 0
    /\ sends["a"] = 1
    /\ xout["a"] = Return(EbResult(EB_ERR_MSG_FORMAT))

\* C28: an exchange returns a failure result (TIMEOUT, CONNECTION, MSG_FORMAT)
\* only when every attempt of its budget has had its receive wait, and the
\* receive of a datagram with version 0, the current transaction id and the
\* expected type ends the exchange with that packet in any attempt, whatever
\* result the attempts before recorded.
C28_FailureOnlyAfterAllAttempts ==
    [][/\ (pc'["a"] = "done" /\ call'["a"].op = "_tx_rx"
              /\ xout'["a"].kind = "return" /\ xout'["a"].value \in FailureResults)
            => /\ frame'["a"].n_tries >= 1
               /\ frame'["a"].it = frame'["a"].n_tries
               /\ recvs'["a"] = frame'["a"].n_tries
       /\ pc["a"] = "rx" =>
            \A raw \in Datagrams({0}, {transaction_id}, {frame["a"].response_type},
                                 {<< >>}) :
              (Matching(raw, "a") /\ Receive("a", RxDatagram(raw)))
                  => /\ frame["a"].it <= frame["a"].n_tries
                     /\ pc'["a"] = "done"
                     /\ xout'["a"] = ParsePacket(raw)
                     /\ xout'["a"].value \notin FailureResults]_vars

\* C28 witness: an exchange has been accepted in the last attempt of the
\* largest budget, after one attempt that timed out and one that was refused.
C28_Witness ==
    /\ pc["a"] = "done" /\ call["a"].op = "_tx_rx"
    /\ frame["a"].n_tries = MaxTries /\ recvs["a"] = MaxTries
    /\ timeouts["a"] >= 1 /\ refusals["a"] >= 1
    /\ frame["a"].result \in FailureResults
    /\ xout["a"].kind = "return" /\ xout["a"].value.py = "dict"
    /\ xout["a"].value.type = EB_MT_PING_RSP

\* C29: while a call of task t waits for a response, under every interleaving
\* of the calls of the other task on the same Connection, the receive of a
\* datagram with version 0, the expected response type and the transaction id
\* of the request of t ends the exchange of t with that packet.
C29_OwnResponseAccepted ==
    [][\A t \in Tasks :
          pc[t] = "rx" =>
            \A raw \in Datagrams({0}, {RequestTid(t)}, {frame[t].response_type},
                                 {OkPayload}) :
              Receive(t, RxDatagram(raw))
                  => /\ pc'[t] = "done"
                     /\ xout'[t] = ParsePacket(raw)]_vars

\* C30: the checks on a received datagram of at least a header are made in
\* the order version, transaction id, server-timeout type, expected type, and
\* the first check that fails decides: a wrong version with a foreign id
\* records MSG_FORMAT and the next attempt sends again; version 0 with a
\* foreign id and the type EB_MT_TIMEOUT records MSG_FORMAT and the next
\* attempt does not send.
C30_FirstFailingCheckDecides ==
    [][\A r \in CoordRx :
          (r.rx = "datagram" /\ RawLen(r.raw) >= 8 /\ Receive("a", r))
              => LET version == UnpackH(r.raw.hdr, 1)
                     tid == UnpackH(r.raw.hdr, 3)
                     type == UnpackH(r.raw.hdr, 5)
                     more == frame["a"].it < frame["a"].n_tries
                 IN  /\ (version # 0 /\ tid # transaction_id)
                          => /\ frame'["a"].result = EbResult(EB_ERR_MSG_FORMAT)
                             /\ more => /\ pc'["a"] = "rx"
                                        /\ sends'["a"] = sends["a"] + 1
                     /\ (version = 0 /\ tid # transaction_id /\ type = EB_MT_TIMEOUT)
                          => /\ frame'["a"].result = EbResult(EB_ERR_MSG_FORMAT)
                             /\ more => /\ pc'["a"] = "rx"
                                        /\ sends'["a"] = sends["a"]]_vars

\* call c has an id outside [0, 0xFFFF]
FailsValidation(c) ==
    \/ c.op = "multi_read" /\ \E k \in 1..Len(c.id_codes) : IdOutOfRange(c.id_codes[k])
    \/ c.op = "single_write" /\ IdOutOfRange(c.id_code)

\* C31: a multi_read or single_write that fails its id-range validation
\* leaves the transaction counter as it was and builds no request, and every
\* request that is built carries the id that follows the id of the request
\* built before it.
C31_InvalidCallKeepsCounter ==
    [][/\ (pc["a"] = "idle" /\ pc'["a"] # "idle" /\ FailsValidation(call'["a"]))
            => /\ pc'["a"] = "done"
               /\ transaction_id' = transaction_id
               /\ nbuilt' = nbuilt
               /\ last_packet' = last_packet
       /\ (nbuilt' = nbuilt + 1 /\ last_packet # None)
            => UnpackH(last_packet'.hdr, 3) = NextTid(UnpackH(last_packet.hdr, 3))
       /\ (nbuilt' = nbuilt + 1 /\ last_packet = None)
            => UnpackH(last_packet'.hdr, 3) = 1]_vars

\* C31 witness: the second call on the Connection waits for its response with
\* a request of id 1, the first call having failed validation.
C31_Witness ==
    /\ ncalls = 2 /\ nbuilt = 1
    /\ pc["a"] = "rx" /\ GatedCall("a")
    /\ RequestTid("a") = 1 /\ transaction_id = 1

\* C32: the gate is held only while a multi_read or single_write is in its
\* exchange, so no call that has ended (accepted, exhausted, failed
\* validation, found a format error, or raised while decoding) holds it, and
\* every call that waits for the gate gets it.
C32_GateReleasedOnEveryEnd ==
    /\ [](tx_rx_lock.locked => \E t \in Tasks : pc[t] = "rx" /\ GatedCall(t))
    /\ \A t \in Tasks : (pc[t] = "wait_lock") ~> (pc[t] # "wait_lock")

\* C32 witness: a multi_read or single_write has ended by raising while it
\* decoded its response, the gate is free, and the other task waits for it.
C32_Witness ==
    /\ pc["a"] = "done" /\ GatedCall("a")
    /\ xout["a"].kind = "return" /\ outcome["a"].kind = "raise"
    /\ pc["b"] = "wait_lock"
    /\ ~tx_rx_lock.locked /\ tx_rx_lock.waiters = << "b" >>

\* the payload has a pair (id_code, code)
CarriesCode(payload, id_code, code) ==
    \E k \in 1..Len(payload) - 1 :
        /\ k % 2 = 1
        /\ payload[k] = MpInt(id_code)
        /\ payload[k + 1] = MpInt(code)

\* the payload has, where the id of a pair stands, something else than id_code
HasForeignId(payload, id_code) ==
    \E k \in 1..Len(payload) : k % 2 = 1 /\ payload[k] # MpInt(id_code)

\* C33: when the exchange of a single_write is accepted and the call returns
\* a result code, then either a format error was found (the payload has an
\* id other than the written one and the code is MSG_FORMAT), or the payload
\* carries a pair of the written id and the returned code.
C33_WriteReturnsCarriedCode ==
    [][pc["a"] = "rx" /\ call["a"].op = "single_write" =>
        \A raw \in Datagrams({0}, {transaction_id}, {EB_MT_WRITE_DATA_RSP},
                             WritePayloads) :
          (Receive("a", RxDatagram(raw)) /\ outcome'["a"].kind = "return")
              => LET code == outcome'["a"].value.value IN
                 \/ /\ code = EB_ERR_MSG_FORMAT
                    /\ HasForeignId(raw.payload, call["a"].id_code)
                 \/ CarriesCode(raw.payload, call["a"].id_code, code)]_vars

\* the ids of the entries of a well-formed payload
IdsOf(payload) == {payload[at].v : at \in EntryStarts(payload, 1)}

\* the ids for which the mapping a multi_read returned holds a decoded entry
DecodedIds(items) == {id \in DOMAIN items : items[id] # None}

\* C34 as stated: the entries a multi_read decodes from an accepted response
\* are those that lie within the payload length the header declares.
C34_StopsAtDeclaredLength ==
    [][pc["a"] = "rx" =>
        \A r \in LenRx :
          (/\ r.rx = "datagram" /\ Receive("a", r)
           /\ outcome'["a"].kind = "return" /\ outcome'["a"].value.py = "dict")
              => LET within == PrefixOfBytes(r.raw.payload, UnpackH(r.raw.hdr, 7)) IN
                 WellFormedRead(within, 1)
                     => DecodedIds(outcome'["a"].value.items) = IdsOf(within)]_vars

\* C34, amended: the entries a multi_read decodes from an accepted response
\* are those of all the bytes received after the header, whatever payload
\* length the header declares: the decoding stops where the received payload
\* ends.
C34_StopsAtReceivedLength ==
    [][pc["a"] = "rx" =>
        \A r \in LenRx :
          (r.rx = "datagram" /\ Receive("a", r))
              => /\ xout'["a"].kind = "return"
                 /\ PayloadLen(xout'["a"].value.payload) = RawLen(r.raw) - 8
                 /\ outcome'["a"].kind = "return" /\ outcome'["a"].value.py = "dict"
                 /\ DecodedIds(outcome'["a"].value.items) = IdsOf(r.raw.payload)]_vars

\* C34 witness: a multi_read has decoded the entry of id 1 from the payload
\* of two entries, whose header declared no more than the 3 bytes of its
\* first entry.
C34_Witness ==
    /\ pc["a"] = "done" /\ call["a"].op = "multi_read"
    /\ xout["a"].kind = "return" /\ xout["a"].value.py = "dict"
    /\ xout["a"].value.payload = TwoEntries
    /\ outcome["a"].kind = "return" /\ outcome["a"].value.py = "dict"
    /\ outcome["a"].value.items[1] # None
    /\ outcome["a"].value.items[1].result_code = EB_ERR_NOT_FOUND

\* object o, decoded as an id, is not an integer of [0, 0xFFFF]
BadId(o) == o.mp # "int" \/ o.v < 0 \/ o.v > UINT16_MAX

\* the payload has, after a sequence of entries, a bad id
BadIdAfterEntries(payload) ==
    \E k \in 1..Len(payload) :
        /\ WellFormedRead(SubSeq(payload, 1, k - 1), 1)
        /\ BadId(payload[k])

\* C35: a multi_read whose accepted response has, after any sequence of
\* entries, an id that is not an integer or lies outside [0, 0xFFFF], has
\* returned None: no mapping, not even of the entries decoded before the id.
C35_BadIdFailsWholeRead ==
    \A t \in Tasks :
        (/\ pc[t] = "done" /\ call[t].op = "multi_read"
         /\ xout[t].kind = "return" /\ xout[t].value.py = "dict"
         /\ BadIdAfterEntries(xout[t].value.payload))
            => outcome[t] = Return(None)

\* C35 witness: a multi_read has returned None for a response with two
\* entries and then an id above 0xFFFF.
C35_Witness ==
    /\ pc["a"] = "done" /\ call["a"].op = "multi_read"
    /\ xout["a"].kind = "return" /\ xout["a"].value.py = "dict"
    /\ xout["a"].value.payload = TwoEntries \o << MpInt(UINT16_MAX + 1) >>
    /\ outcome["a"] = Return(None)

\* C36: a connect_to_device that has ended made between one and
\* max_connect_attempts attempts and returned True or False; its last attempt
\* called get_connected_clients if its connect returned 0; and it returned
\* True exactly when, in its last attempt, connect returned 0 and
\* get_connected_clients returned EB_OK.
C36_ConnectToDevice ==
    \A t \in Tasks :
        (pc[t] = "done" /\ call[t].op = "connect_to_device")
            => LET c == call[t]
                   ok == /\ c.clients.kind = "return"
                         /\ c.clients.value.py = "tuple"
                         /\ c.clients.value.result_code = EbResult(EB_OK)
               IN  /\ c.attempt \in 1..max_connect_attempts
                   /\ outcome[t] \in {Return(PyBool(TRUE)), Return(PyBool(FALSE))}
                   /\ c.ret = Return(PyInt(0)) => c.clients # Running
                   /\ outcome[t] = Return(PyBool(TRUE))
                        <=> (c.ret = Return(PyInt(0)) /\ ok)

\* main has asked for main mode ON: it is in, or has ended, a
\* switch_main_mode with target mode 1
OnRequested(w) ==
    \/ w.sw # None /\ w.sw.target_mode = 1
    \/ \E k \in 1..Len(w.req) : w.req[k].mode = 1

C38_OffRequestedBeforeEnd ==
    \A t \in Tasks : (call[t].op = "main" /\ call[t].at = "exit") =>
        \A k \in 1..Len(call[t].req) :
            (call[t].req[k].mode = 1 /\ call[t].req[k].ok) =>
                \E j \in (k + 1)..Len(call[t].req) : call[t].req[j].mode = 0

\* ceil(a / b) for a >= 0 and b > 0
CeilDiv(a, b) == (a + b - 1) \div b

\* task t is in a switch_main_mode of its own
InSwitch(t) == call[t].op = "switch_main_mode"

====
